---- MODULE Spec2Model ----
(***************************************************************************)
(* Skill system of CClaw (skill.c): the process-wide skill registry, the   *)
(* skill loader (single file and directory scan) and the manifest parsers. *)
(*                                                                         *)
(* Text is modelled as follows.  A path is the sequence of its components  *)
(* (<<"ws", "weather", "SKILL.toml">> is ws/weather/SKILL.toml), a file    *)
(* name is looked up in NameParts for its stem and extension, a Markdown   *)
(* document is the sequence of its lines, and a name or description is a   *)
(* string, "" being the empty str_t (len == 0).                            *)
(***************************************************************************)
EXTENDS Integers, Sequences, FiniteSets, TLC

\* Size of the heap pool of skill_t objects the model may allocate.
MaxSkills == 3

\* The latest time the host's clock reaches.
MaxTime == 3

\* How many skills the host builds in the tool execution scenarios.
MaxToolSkills == 2

\* How many skills the host registers in the capacity scenarios.
MaxRegistered == 9

\* How many lines a Markdown document of the parser scenarios has.
MaxLines == 3

\* How many sync intervals the clock of the sync scenarios runs through.
MaxSyncIntervals == 2

\* Smallest capacity skill_registry_ensure_capacity ever allocates.
MinCapacity == 8

\* Seconds between two syncs of the open skills repository.
OPEN_SKILLS_SYNC_INTERVAL_SECS == 60 * 60 * 24 * 7

ERR_OK == "ERR_OK"
ERR_INVALID_ARGUMENT == "ERR_INVALID_ARGUMENT"
ERR_OUT_OF_MEMORY == "ERR_OUT_OF_MEMORY"
ERR_FILE_NOT_FOUND == "ERR_FILE_NOT_FOUND"
ERR_FILE_READ_FAILED == "ERR_FILE_READ_FAILED"
ERR_NOT_FOUND == "ERR_NOT_FOUND"
ERR_ALREADY_EXISTS == "ERR_ALREADY_EXISTS"
ERR_VALIDATION_FAILED == "ERR_VALIDATION_FAILED"
ERR_NOT_IMPLEMENTED == "ERR_NOT_IMPLEMENTED"
ERR_FAILED == "ERR_FAILED"
ERR_FILE_CREATE_FAILED == "ERR_FILE_CREATE_FAILED"
\* ret of a call that did not return (void function, or the process died).
NO_RESULT == "NO_RESULT"

SkillIds == 1..MaxSkills
\* The NULL skill_t pointer.
NULL == 0

-----------------------------------------------------------------------------
(* The file system the loader reads: three skill directories, an empty     *)
(* directory, a path that is no directory, and a file outside of them.     *)
(* ws/docs is a directory whose only manifest file is SKILL.md.            *)

Dirs == {"ws", "open", "team", "void", "nodir"}

\* opendir(dir_path) succeeds.
CanOpenDir(d) == d \in {"ws", "open", "team", "void"}

\* The names readdir returns, in enumeration order, "." and ".." left out.
DirEntries(d) ==
  CASE d = "ws"   -> <<"weather", "broken.toml", "docs">>
    [] d = "open" -> <<"locked.md", "git-tools.md", "notes.txt">>
    [] d = "team" -> <<"gone.md", "git-tools.md", "empty.md">>
    [] OTHER      -> << >>

\* Stem and extension of a file name (the part before and after the last '.').
NameParts(n) ==
  CASE n = "SKILL.toml"   -> [base |-> "SKILL",     ext |-> "toml"]
    [] n = "SKILL.md"     -> [base |-> "SKILL",     ext |-> "md"]
    [] n = "skill.json"   -> [base |-> "skill",     ext |-> "json"]
    [] n = "broken.toml"  -> [base |-> "broken",    ext |-> "toml"]
    [] n = "locked.md"    -> [base |-> "locked",    ext |-> "md"]
    [] n = "git-tools.md" -> [base |-> "git-tools", ext |-> "md"]
    [] n = "gone.md"      -> [base |-> "gone",      ext |-> "md"]
    [] n = "empty.md"     -> [base |-> "empty",     ext |-> "md"]
    [] n = "notes.txt"    -> [base |-> "notes",     ext |-> "txt"]
    [] n = "plain.toml"   -> [base |-> "plain",     ext |-> "toml"]
    [] n = "tagged.md"    -> [base |-> "tagged",    ext |-> "md"]
    [] n = "tagged.txt"   -> [base |-> "tagged",    ext |-> "txt"]
    [] OTHER              -> [base |-> n,           ext |-> ""]

\* What is on disk at a path.  type "none": stat fails (gone.md is a dangling
\* link).  marker: the content contains "[skill]".  toml: the fields the
\* [skill] table of a TOML file declares.  lines: the lines of the document.
NoNode ==
  [type |-> "none", readable |-> FALSE, marker |-> FALSE,
   toml |-> [name |-> "", description |-> ""], lines |-> << >>]

Node(path) ==
  CASE path = <<"ws", "weather">> ->
         [NoNode EXCEPT !.type = "dir"]
    [] path = <<"ws", "docs">> ->
         [NoNode EXCEPT !.type = "dir"]
    [] path = <<"ws", "docs", "SKILL.md">> ->
         [NoNode EXCEPT !.type = "file", !.readable = TRUE,
                        !.lines = <<"# Docs", "", "Project documentation">>]
    [] path = <<"ws", "weather", "SKILL.toml">> ->
         [type |-> "file", readable |-> TRUE, marker |-> TRUE,
          toml |-> [name |-> "weather", description |-> "Weather lookup"],
          lines |-> <<"[skill]", "name = weather">>]
    [] path = <<"ws", "broken.toml">> ->
         [type |-> "file", readable |-> TRUE, marker |-> TRUE,
          toml |-> [name |-> "broken", description |-> ""],
          lines |-> <<"[skill]", "name = broken">>]
    [] path = <<"open", "locked.md">> ->
         [NoNode EXCEPT !.type = "file"]
    [] path = <<"open", "git-tools.md">> ->
         [NoNode EXCEPT !.type = "file", !.readable = TRUE,
                        !.lines = <<"# Git tools", "", "Git helpers">>]
    [] path = <<"open", "notes.txt">> ->
         [NoNode EXCEPT !.type = "file", !.readable = TRUE,
                        !.lines = <<"todo">>]
    [] path = <<"team", "git-tools.md">> ->
         [NoNode EXCEPT !.type = "file", !.readable = TRUE,
                        !.lines = <<"", "Team git workflow">>]
    [] path = <<"team", "empty.md">> ->
         [NoNode EXCEPT !.type = "file", !.readable = TRUE,
                        !.lines = <<"# Empty", "">>]
    [] path = <<"drafts", "git-tools.md">> ->
         [NoNode EXCEPT !.type = "file", !.readable = TRUE,
                        !.lines = <<"# Git tools">>]
    [] path = <<"mix", "plain.toml">> ->
         [NoNode EXCEPT !.type = "file", !.readable = TRUE,
                        !.lines = <<"name = plain">>]
    [] path = <<"mix", "tagged.md">> ->
         [NoNode EXCEPT !.type = "file", !.readable = TRUE, !.marker = TRUE,
                        !.toml = [name |-> "tagged", description |-> "Tagged"],
                        !.lines = <<"# Tagged", "[skill]", "A tagged note">>]
    [] path = <<"mix", "tagged.txt">> ->
         [NoNode EXCEPT !.type = "file", !.readable = TRUE, !.marker = TRUE,
                        !.toml = [name |-> "tagged", description |-> "Tagged"],
                        !.lines = <<"[skill]", "name = tagged">>]
    [] path = <<"mix", "README">> ->
         [NoNode EXCEPT !.type = "file", !.readable = TRUE,
                        !.lines = <<"", "Read me first">>]
    [] OTHER -> NoNode

\* The lines of the model's documents that start with '#'.
StartsWithHash(line) ==
  line \in {"# Git tools", "# Empty", "# Docs", "# Tagged", "# Title",
            "## Usage"}

\* The file paths a caller hands to skill_load.
LoadPaths ==
  {<<"ws", "broken.toml">>, <<"open", "locked.md">>, <<"open", "git-tools.md">>,
   <<"team", "gone.md">>, <<"drafts", "git-tools.md">>}

\* Files of every suffix, with and without the "[skill]" marker.
DialectPaths ==
  {<<"ws", "weather", "SKILL.toml">>, <<"mix", "plain.toml">>,
   <<"open", "git-tools.md">>, <<"mix", "tagged.md">>,
   <<"open", "notes.txt">>, <<"mix", "tagged.txt">>, <<"mix", "README">>}

\* The names a caller looks up or unregisters.
Names == {"unknown", "git-tools"}

\* The null str_t pointer, as a name argument.
NULL_NAME == "(null)"

-----------------------------------------------------------------------------
(* skill_t objects                                                         *)

\* A manifest after memset(0): every str_t empty, no tags, tools or prompts.
\* A tool is a record [name, description, kind, command].
ZeroManifest ==
  [name |-> "", description |-> "", version |-> "", author |-> "",
   tags |-> << >>, tools |-> << >>, prompts |-> << >>, location |-> << >>]

\* A heap slot: st is "unalloc" (never allocated), "live", "lost" (live, but
\* no pointer to it is left) or "freed".
ZeroSkill ==
  [st |-> "unalloc", manifest |-> ZeroManifest, loaded |-> FALSE,
   load_time |-> 0]

\* time(NULL): the seconds the host's clock shows, always past the epoch.
VARIABLE clock

\* file_exists that takes every path to exist.
file_exists_unchecked(path) == TRUE

file_exists(path) == Node(path).type # "none"

file_read_all(path) ==
  IF Node(path).type = "file" /\ Node(path).readable
    THEN [err |-> ERR_OK, lines |-> Node(path).lines]
    ELSE [err |-> ERR_FILE_READ_FAILED, lines |-> << >>]

\* A suffix test that never matches.
str_ends_with_never(path, ext) == FALSE

str_ends_with(path, ext) ==
  Len(path) > 0 /\ NameParts(path[Len(path)]).ext = ext

skill_manifest_parse_toml(content) ==
  [err |-> ERR_OK,
   manifest |-> [ZeroManifest EXCEPT !.name = "unknown",
                                     !.description = "Skill loaded from TOML",
                                     !.version = "0.1.0"]]

\* The first line that is not empty and does not start with '#', "" if none.
RECURSIVE FirstContentLine(_)
FirstContentLine(lines) ==
  IF lines = << >> THEN ""
  ELSE IF Head(lines) # "" /\ ~StartsWithHash(Head(lines)) THEN Head(lines)
  ELSE FirstContentLine(Tail(lines))

skill_manifest_parse_md(lines, skill_name) ==
  [err |-> ERR_OK,
   manifest |-> [ZeroManifest EXCEPT !.name = skill_name,
                                     !.description = FirstContentLine(lines),
                                     !.version = "0.1.0"]]

\* skill_load(path, &skill): callocFails is the outcome of calloc.  The result
\* is the error and the skill_t written to *out_skill on success.
skill_load(path, callocFails) ==
  IF ~file_exists(path) THEN [err |-> ERR_FILE_NOT_FOUND, skill |-> ZeroSkill]
  ELSE IF callocFails THEN [err |-> ERR_OUT_OF_MEMORY, skill |-> ZeroSkill]
  ELSE LET rd == file_read_all(path) IN
    IF rd.err # ERR_OK THEN [err |-> ERR_FILE_READ_FAILED, skill |-> ZeroSkill]
    ELSE
      LET is_toml == str_ends_with(path, "toml") \/ Node(path).marker
          parsed  == IF is_toml
                       THEN skill_manifest_parse_toml(rd.lines)
                       ELSE skill_manifest_parse_md(
                              rd.lines, NameParts(path[Len(path)]).base)
      IN IF parsed.err # ERR_OK THEN [err |-> parsed.err, skill |-> ZeroSkill]
         ELSE [err |-> ERR_OK,
               skill |-> [st |-> "live",
                          manifest |-> [parsed.manifest
                                          EXCEPT !.location = path],
                          loaded |-> TRUE,
                          load_time |-> clock]]

-----------------------------------------------------------------------------
(* State                                                                   *)

VARIABLES
  initialized,  \* g_registry.initialized
  capacity,     \* g_registry.capacity
  reg,          \* g_registry.skills[0 .. skill_count-1], as skill ids
  heap,         \* the skill_t objects, by id
  fault,        \* "none", or the outcome of undefined behaviour
  op,           \* the last call: [name, arg]
  ret,          \* its return value
  outWritten,   \* whether it wrote its out parameters
  outSkill,     \* *out_skill
  outSkills,    \* (*out_skills)[0 .. *out_count-1]
  scanLog,      \* skill_load_from_directory: what each visited entry gave
  toolResult,   \* skill_execute_tool: the result it wrote
  shellRun,     \* the commands the last call handed to shell_execute
  outJson,      \* skill_manifest_to_json: the text it wrote, as tokens
  outPrompt,    \* *out_prompt: the text written, as the appended pieces
  outToolDef,   \* *out_tool_def of skill_tool_to_extension
  hostCalls,    \* the calls of api->register_tool the last call made
  outManifest,  \* *out_manifest of a parser the host called
  marker,       \* st_mtime of the sync marker file of each repository
  locking,      \* the host serialises its registry calls with one lock
  lockHolder,   \* the thread inside a serialised call, 0 when there is none
  threads       \* each host thread's position in its skill_register call

vars == <<initialized, capacity, reg, heap, fault, op, ret,
          outWritten, outSkill, outSkills, scanLog,
          toolResult, shellRun, outJson, outPrompt, outToolDef, hostCalls,
          outManifest, clock, marker, locking, lockHolder, threads>>

\* The host's threads and the lock it may put around the registry calls.
callers == <<locking, lockHolder, threads>>

\* What lives outside the skill module's own data.
env == <<marker, locking, lockHolder, threads>>

\* The threads of the host that call into the registry.
Threads == {1, 2}

\* A thread that is in no skill_register call and has made none.
IdleThread ==
  [pc |-> "idle", skill |-> NULL, ret |-> NO_RESULT, overlap |-> FALSE]

\* The directories a host keeps open skills in; "nodir" cannot hold a file.
RepoDirs == {"open", "nodir"}

\* marker[d] when the marker file of d does not exist.
NO_MARKER == -1

\* A tool_def_t nothing was written to.
NoToolDef ==
  [written |-> FALSE, name |-> "", description |-> "", type |-> "unset",
   command |-> "", parameters |-> << >>]

\* A tool_result_t (or json_t result) nothing was written to.
NoToolResult ==
  [written |-> FALSE, success |-> FALSE, exit_code |-> 0, output |-> << >>]

skill_count == Len(reg)

Init ==
  /\ initialized = FALSE
  /\ capacity = 0
  /\ reg = << >>
  /\ heap = [s \in SkillIds |-> ZeroSkill]
  /\ fault = "none"
  /\ op = [name |-> "start", arg |-> NULL]
  /\ ret = NO_RESULT
  /\ outWritten = FALSE
  /\ outSkill = NULL
  /\ outSkills = << >>
  /\ scanLog = << >>
  /\ toolResult = NoToolResult
  /\ shellRun = << >>
  /\ outJson = << >>
  /\ outPrompt = << >>
  /\ outToolDef = NoToolDef
  /\ hostCalls = << >>
  /\ outManifest = ZeroManifest
  /\ clock = 1
  /\ marker = [d \in RepoDirs |-> NO_MARKER]
  /\ locking = FALSE
  /\ lockHolder = 0
  /\ threads = [t \in Threads |-> IdleThread]

\* The ids calloc can still hand out, and the one it hands out next.
FreeIds(h) == {s \in DOMAIN h : h[s].st = "unalloc"}
NextId(h) == CHOOSE s \in FreeIds(h) : \A t \in FreeIds(h) : s <= t

\* The skills a caller holds a usable pointer to.
Held == {s \in DOMAIN heap : heap[s].st = "live"}

NoOut == /\ outWritten' = FALSE
         /\ outSkill' = NULL
         /\ outSkills' = << >>
         /\ scanLog' = << >>

\* The call converts no tool and offers none to the host.
NoExtension == /\ outToolDef' = NoToolDef
               /\ hostCalls' = << >>

\* The call is no call of a parser by the host.
NoManifest == outManifest' = ZeroManifest

\* The call runs no tool and prints no manifest and no prompt.
NoExec == /\ NoManifest
          /\ toolResult' = NoToolResult
          /\ shellRun' = << >>
          /\ outJson' = << >>
          /\ outPrompt' = << >>
          /\ NoExtension

\* skill_load called by the host.
SkillLoad(path, callocFails) ==
  /\ fault = "none"
  /\ UNCHANGED env
  /\ NoExec
  /\ UNCHANGED clock
  /\ skill_load(path, callocFails).err = ERR_OK => FreeIds(heap) # {}
  /\ LET r == skill_load(path, callocFails) IN
       /\ op' = [name |-> "load", arg |-> path]
       /\ ret' = r.err
       /\ IF r.err = ERR_OK
            THEN /\ heap' = [heap EXCEPT ![NextId(heap)] = r.skill]
                 /\ outWritten' = TRUE
                 /\ outSkill' = NextId(heap)
                 /\ outSkills' = << >>
                 /\ scanLog' = << >>
            ELSE /\ heap' = heap
                 /\ NoOut
  /\ UNCHANGED <<initialized, capacity, reg, fault>>

\* A growth to exactly what is asked for.
skill_registry_ensure_capacity_exact(cap, min_capacity, reallocFails) ==
  IF min_capacity <= cap THEN [err |-> ERR_OK, capacity |-> cap]
  ELSE IF reallocFails THEN [err |-> ERR_OUT_OF_MEMORY, capacity |-> cap]
  ELSE [err |-> ERR_OK,
        capacity |-> IF min_capacity < MinCapacity THEN MinCapacity
                                                   ELSE min_capacity]

\* skill_registry_ensure_capacity(min_capacity): reallocFails is the outcome
\* of realloc.  The result is the error and the capacity afterwards.
skill_registry_ensure_capacity(cap, min_capacity, reallocFails) ==
  IF min_capacity <= cap THEN [err |-> ERR_OK, capacity |-> cap]
  ELSE
    LET doubled == cap * 2
        atLeast == IF doubled < min_capacity THEN min_capacity ELSE doubled
        new_capacity == IF atLeast < MinCapacity THEN MinCapacity ELSE atLeast
    IN IF reallocFails THEN [err |-> ERR_OUT_OF_MEMORY, capacity |-> cap]
       ELSE [err |-> ERR_OK, capacity |-> new_capacity]

\* The heap blocks a str_t (an array) owns: one when it is not empty, none
\* when its data pointer is NULL.
StrBlocks(str) == IF str = "" THEN 0 ELSE 1
ArrayBlocks(a) == IF a = << >> THEN 0 ELSE 1

\* The loops over tags and prompts: str_free of every element.
RECURSIVE StrArrayBlocks(_)
StrArrayBlocks(a) ==
  IF a = << >> THEN 0 ELSE StrBlocks(Head(a)) + StrArrayBlocks(Tail(a))

\* The loop over the args of a tool: str_free of every key and value.
RECURSIVE ArgArrayBlocks(_)
ArgArrayBlocks(a) ==
  IF a = << >> THEN 0
  ELSE StrBlocks(Head(a).key) + StrBlocks(Head(a).value)
       + ArgArrayBlocks(Tail(a))

\* skill_tool_free(tool): the blocks it hands to free.
skill_tool_free(tool) ==
  StrBlocks(tool.name) + StrBlocks(tool.description) + StrBlocks(tool.kind)
    + StrBlocks(tool.command)
    + ArrayBlocks(tool.args) + ArgArrayBlocks(tool.args)

\* The loop over tools: skill_tool_free of every element.
RECURSIVE ToolArrayBlocks(_)
ToolArrayBlocks(a) ==
  IF a = << >> THEN 0 ELSE skill_tool_free(Head(a)) + ToolArrayBlocks(Tail(a))

\* skill_manifest_free that leaves the manifest as it was (no memset).
skill_manifest_free_keeps_fields(m) ==
  [manifest |-> m,
   released |-> StrBlocks(m.name) + StrBlocks(m.description)
                  + StrBlocks(m.version) + StrBlocks(m.author)
                  + ArrayBlocks(m.location)
                  + ArrayBlocks(m.tags) + StrArrayBlocks(m.tags)
                  + ArrayBlocks(m.tools) + ToolArrayBlocks(m.tools)
                  + ArrayBlocks(m.prompts) + StrArrayBlocks(m.prompts)]

\* skill_manifest_free(manifest): the manifest afterwards (memset to 0) and
\* the number of blocks handed to free.
skill_manifest_free(m) ==
  [manifest |-> ZeroManifest,
   released |-> StrBlocks(m.name) + StrBlocks(m.description)
                  + StrBlocks(m.version) + StrBlocks(m.author)
                  + ArrayBlocks(m.location)
                  + ArrayBlocks(m.tags) + StrArrayBlocks(m.tags)
                  + ArrayBlocks(m.tools) + ToolArrayBlocks(m.tools)
                  + ArrayBlocks(m.prompts) + StrArrayBlocks(m.prompts)]

\* skill_unload that clears the flags and leaves the manifest alone.
skill_unload_flags_only(sk) ==
  [sk EXCEPT !.loaded = FALSE, !.load_time = 0]

\* skill_unload on the skill_t sk: skill_manifest_free, then the flags.
skill_unload(sk) ==
  [sk EXCEPT !.manifest = skill_manifest_free(sk.manifest).manifest,
             !.loaded = FALSE, !.load_time = 0]

\* FirstIndex with the loop started at the second entry.
FirstIndexFromSecond(r, h, name) ==
  IF \E i \in 2..Len(r) : h[r[i]].manifest.name = name
    THEN CHOOSE i \in 2..Len(r) :
           /\ h[r[i]].manifest.name = name
           /\ \A j \in 2..(i - 1) : h[r[j]].manifest.name # name
    ELSE 0

\* Index of the first registry entry whose manifest.name equals name, 0 if
\* there is none: the scan loop of find, register and unregister.
FirstIndex(r, h, name) ==
  IF \E i \in 1..Len(r) : h[r[i]].manifest.name = name
    THEN CHOOSE i \in 1..Len(r) :
           /\ h[r[i]].manifest.name = name
           /\ \A j \in 1..(i - 1) : h[r[j]].manifest.name # name
    ELSE 0

\* skill_validate without the check that a shell tool has a command.
skill_validate_no_command_check(sk) ==
  IF sk.manifest.name = "" THEN ERR_VALIDATION_FAILED
  ELSE IF sk.manifest.description = "" THEN ERR_VALIDATION_FAILED
  ELSE IF \E i \in 1..Len(sk.manifest.tools) :
            LET tool == sk.manifest.tools[i] IN
              \/ tool.name = ""
              \/ tool.description = ""
              \/ tool.kind = ""
    THEN ERR_VALIDATION_FAILED
  ELSE ERR_OK

skill_validate(sk) ==
  IF sk.manifest.name = "" THEN ERR_VALIDATION_FAILED
  ELSE IF sk.manifest.description = "" THEN ERR_VALIDATION_FAILED
  ELSE IF \E i \in 1..Len(sk.manifest.tools) :
            LET tool == sk.manifest.tools[i] IN
              \/ tool.name = ""
              \/ tool.description = ""
              \/ tool.kind = ""
              \/ (tool.kind = "shell" /\ tool.command = "")
    THEN ERR_VALIDATION_FAILED
  ELSE ERR_OK

skill_registry_init ==
  /\ fault = "none"
  /\ UNCHANGED env
  /\ NoExec
  /\ UNCHANGED clock
  /\ op' = [name |-> "init", arg |-> NULL]
  /\ ret' = ERR_OK
  /\ NoOut
  /\ IF initialized
       THEN UNCHANGED <<initialized, capacity, reg>>
       ELSE /\ reg' = << >>
            /\ capacity' = 0
            /\ initialized' = TRUE
  /\ UNCHANGED <<heap, fault>>

skill_registry_shutdown ==
  /\ fault = "none"
  /\ UNCHANGED env
  /\ NoExec
  /\ UNCHANGED clock
  /\ op' = [name |-> "shutdown", arg |-> NULL]
  /\ ret' = NO_RESULT
  /\ NoOut
  /\ IF ~initialized
       THEN UNCHANGED <<initialized, capacity, reg, heap>>
       ELSE /\ heap' = [s \in DOMAIN heap |->
                          IF \E i \in 1..Len(reg) : reg[i] = s
                            THEN [skill_unload(heap[s]) EXCEPT !.st = "freed"]
                            ELSE heap[s]]
            /\ reg' = << >>
            /\ capacity' = 0
            /\ initialized' = FALSE
  /\ UNCHANGED fault

\* skill_unload called by the host on a pointer it holds, or on NULL.
SkillUnload(s) ==
  /\ fault = "none"
  /\ UNCHANGED env
  /\ NoExec
  /\ UNCHANGED clock
  /\ op' = [name |-> "unload", arg |-> s]
  /\ NoOut
  /\ IF s = NULL
       THEN /\ ret' = ERR_INVALID_ARGUMENT
            /\ heap' = heap
       ELSE /\ ret' = ERR_OK
            /\ heap' = [heap EXCEPT ![s] = skill_unload(heap[s])]
  /\ UNCHANGED <<initialized, capacity, reg, fault>>

\* skill_reload: the skill is unloaded, and skill_load then stores the new
\* skill_t in the local parameter, which nothing reads after the return.
skill_reload(s, callocFails) ==
  /\ fault = "none"
  /\ UNCHANGED env
  /\ NoExec
  /\ UNCHANGED clock
  /\ (s # NULL /\ heap[s].loaded) => FreeIds(heap) # {}
  /\ op' = [name |-> "reload", arg |-> s]
  /\ NoOut
  /\ IF s = NULL \/ ~heap[s].loaded
       THEN /\ ret' = ERR_INVALID_ARGUMENT
            /\ heap' = heap
       ELSE LET location == heap[s].manifest.location
                r == skill_load(location, callocFails)
            IN /\ ret' = r.err
               /\ heap' = IF r.err = ERR_OK
                            THEN [heap EXCEPT
                                    ![s] = skill_unload(heap[s]),
                                    ![NextId(heap)] =
                                      [r.skill EXCEPT !.st = "lost"]]
                            ELSE [heap EXCEPT ![s] = skill_unload(heap[s])]
  /\ UNCHANGED <<initialized, capacity, reg, fault>>

skill_registry_find(name) ==
  /\ fault = "none"
  /\ UNCHANGED env
  /\ NoExec
  /\ UNCHANGED clock
  /\ op' = [name |-> "find", arg |-> name]
  /\ IF name = NULL_NAME
       THEN /\ ret' = ERR_INVALID_ARGUMENT
            /\ NoOut
     ELSE IF FirstIndex(reg, heap, name) # 0
       THEN /\ ret' = ERR_OK
            /\ outWritten' = TRUE
            /\ outSkill' = reg[FirstIndex(reg, heap, name)]
            /\ outSkills' = << >>
            /\ scanLog' = << >>
     ELSE /\ ret' = ERR_NOT_FOUND
          /\ NoOut
  /\ UNCHANGED <<initialized, capacity, reg, heap, fault>>

skill_registry_list ==
  /\ fault = "none"
  /\ UNCHANGED env
  /\ NoExec
  /\ UNCHANGED clock
  /\ op' = [name |-> "list", arg |-> NULL]
  /\ ret' = ERR_OK
  /\ outWritten' = TRUE
  /\ outSkill' = NULL
  /\ outSkills' = reg
  /\ scanLog' = << >>
  /\ UNCHANGED <<initialized, capacity, reg, heap, fault>>

skill_register(s, reallocFails) ==
  /\ fault = "none"
  /\ UNCHANGED env
  /\ NoExec
  /\ UNCHANGED clock
  /\ op' = [name |-> "register", arg |-> s]
  /\ NoOut
  /\ IF s = NULL
       THEN /\ ret' = ERR_INVALID_ARGUMENT
            /\ UNCHANGED <<capacity, reg>>
     ELSE IF skill_validate(heap[s]) # ERR_OK
       THEN /\ ret' = skill_validate(heap[s])
            /\ UNCHANGED <<capacity, reg>>
     ELSE IF FirstIndex(reg, heap, heap[s].manifest.name) # 0
       THEN /\ ret' = ERR_ALREADY_EXISTS
            /\ UNCHANGED <<capacity, reg>>
     ELSE LET grown == skill_registry_ensure_capacity(
                         capacity, skill_count + 1, reallocFails)
          IN IF grown.err # ERR_OK
               THEN /\ ret' = grown.err
                    /\ UNCHANGED <<capacity, reg>>
               ELSE /\ ret' = ERR_OK
                    /\ capacity' = grown.capacity
                    /\ reg' = Append(reg, s)
  /\ UNCHANGED <<initialized, heap, fault>>

\* Removal by moving the last entry into the hole.
SwapWithLast(r, i) ==
  [j \in 1..(Len(r) - 1) |-> IF j = i THEN r[Len(r)] ELSE r[j]]

\* The shift of skill_unregister: entry i is overwritten by its successors.
ShiftLeft(r, i) ==
  [j \in 1..(Len(r) - 1) |-> IF j < i THEN r[j] ELSE r[j + 1]]

skill_unregister(name) ==
  /\ fault = "none"
  /\ UNCHANGED env
  /\ NoExec
  /\ UNCHANGED clock
  /\ op' = [name |-> "unregister", arg |-> name]
  /\ NoOut
  /\ IF name = NULL_NAME
       THEN /\ ret' = ERR_INVALID_ARGUMENT
            /\ reg' = reg
     ELSE IF FirstIndex(reg, heap, name) # 0
       THEN /\ ret' = ERR_OK
            /\ reg' = ShiftLeft(reg, FirstIndex(reg, heap, name))
     ELSE /\ ret' = ERR_NOT_FOUND
          /\ reg' = reg
  /\ UNCHANGED <<initialized, capacity, heap, fault>>

\* The allocation outcomes of one skill_load_from_directory call.  skill: the
\* entry at which calloc in skill_load fails (0: none).  reg, arr: realloc of
\* the registry array, of the result array, fails.  segv: what the store
\* through the registry array does after a failed growth (see ScanEntry).
OomCases(d) ==
  {o \in [skill : 0..Len(DirEntries(d)), reg : BOOLEAN, arr : BOOLEAN,
          segv : BOOLEAN] : o.segv => o.reg}

\* The path skill_load is called with for entry e of directory d, << >> when
\* the entry is no skill file.
SkillFilePath(d, e) ==
  LET full_path  == <<d, e>>
      skill_toml == <<d, e, "SKILL.toml">>
  IN IF Node(full_path).type = "dir" /\ file_exists(skill_toml) THEN skill_toml
     ELSE IF NameParts(e).ext \in {"toml", "md", "json"} THEN full_path
     ELSE << >>

\* A scan that gives up at the entry whose skill_load failed.
LoadFailedAborts(acc, path, err) ==
  [acc EXCEPT !.log = Append(@, [path |-> path, err |-> err]),
              !.ret = err,
              !.stop = TRUE]

\* The loop's state after skill_load failed on path: the error is dropped
\* and the loop goes on to the next entry.
LoadFailed(acc, path, err) ==
  [acc EXCEPT !.log = Append(@, [path |-> path, err |-> err])]

\* One iteration of the readdir loop, on the loop's state acc.  The return
\* value of skill_registry_ensure_capacity is not read: after a failed growth
\* the store skills[skill_count++] = skill lies outside the array, which is
\* undefined behaviour.  Its outcomes here: the process dies at the store
\* (fault "segv"), or the store and the increment happen and the call goes on
\* (fault "overflow").
ScanEntry(acc, d, i, oom) ==
  LET path == SkillFilePath(d, DirEntries(d)[i]) IN
  IF path = << >>
    THEN [acc EXCEPT !.log = Append(@, [path |-> path, err |-> "SKIPPED"])]
  ELSE CHOOSE result \in
    {IF r.err # ERR_OK
       THEN LoadFailed(acc, path, r.err)
     ELSE IF grown.err # ERR_OK /\ oom.segv
       THEN [acc EXCEPT !.log = Append(@, [path |-> path, err |-> r.err]),
                        !.heap[NextId(acc.heap)] = r.skill,
                        !.fault = "segv",
                        !.stop = TRUE]
     ELSE [acc EXCEPT
             !.log = Append(@, [path |-> path, err |-> r.err]),
             !.heap[NextId(acc.heap)] = r.skill,
             !.capacity = grown.capacity,
             !.reg = Append(@, NextId(acc.heap)),
             !.fault = IF grown.err # ERR_OK THEN "overflow" ELSE @,
             !.ret = IF Len(acc.loaded) >= acc.lcap /\ oom.arr
                       THEN ERR_OUT_OF_MEMORY ELSE @,
             !.stop = Len(acc.loaded) >= acc.lcap /\ oom.arr,
             !.lcap = IF Len(acc.loaded) >= acc.lcap /\ ~oom.arr
                        THEN (IF @ = 0 THEN MinCapacity ELSE @ * 2) ELSE @,
             !.loaded = IF Len(acc.loaded) >= acc.lcap /\ oom.arr
                          THEN @ ELSE Append(@, NextId(acc.heap))]
     : r \in {skill_load(path, oom.skill = i)},
       grown \in {skill_registry_ensure_capacity(
                    acc.capacity, Len(acc.reg) + 1, oom.reg)}} : TRUE

\* The readdir loop from entry i on.
RECURSIVE ScanFrom(_, _, _, _)
ScanFrom(acc, d, i, oom) ==
  IF acc.stop \/ i > Len(DirEntries(d)) THEN acc
  ELSE CHOOSE end \in {ScanFrom(next, d, i + 1, oom) :
                         next \in {ScanEntry(acc, d, i, oom)}} : TRUE

\* The number of skill_t objects a scan of d allocates at most.
ScanNeeds(d) ==
  Cardinality({i \in 1..Len(DirEntries(d)) :
     LET path == SkillFilePath(d, DirEntries(d)[i]) IN
       path # << >> /\ skill_load(path, FALSE).err = ERR_OK})

skill_load_from_directory(d) ==
  /\ fault = "none"
  /\ UNCHANGED env
  /\ NoExec
  /\ UNCHANGED clock
  /\ Cardinality(FreeIds(heap)) >= ScanNeeds(d)
  /\ op' = [name |-> "load_dir", arg |-> d]
  /\ outSkill' = NULL
  /\ IF ~CanOpenDir(d)
       THEN /\ ret' = ERR_FILE_NOT_FOUND
            /\ outWritten' = FALSE
            /\ outSkills' = << >>
            /\ scanLog' = << >>
            /\ UNCHANGED <<capacity, reg, heap, fault>>
       ELSE \E end \in {ScanFrom([capacity |-> capacity, reg |-> reg,
                                   heap |-> heap, loaded |-> << >>,
                                   lcap |-> 0, log |-> << >>, ret |-> ERR_OK,
                                   fault |-> "none", stop |-> FALSE],
                                  d, 1, oom) : oom \in OomCases(d)} :
               /\ capacity' = end.capacity
               /\ reg' = end.reg
               /\ heap' = end.heap
               /\ fault' = end.fault
               /\ scanLog' = end.log
               /\ IF end.fault = "segv"
                    THEN /\ ret' = NO_RESULT
                         /\ outWritten' = FALSE
                         /\ outSkills' = << >>
                  ELSE IF end.ret # ERR_OK
                    THEN /\ ret' = end.ret
                         /\ outWritten' = FALSE
                         /\ outSkills' = << >>
                    ELSE /\ ret' = ERR_OK
                         /\ outWritten' = TRUE
                         /\ outSkills' = end.loaded
  /\ UNCHANGED initialized

-----------------------------------------------------------------------------
(* Skills the host builds by hand: a skill_t whose manifest it fills in,   *)
(* with tools made by skill_create_tool.                                   *)

\* skill_create_tool(tool, name, description, kind, command): the fields are
\* copied as given, none is checked.
skill_create_tool(name, description, kind, command) ==
  [name |-> name, description |-> description, kind |-> kind,
   command |-> command, args |-> << >>]

\* skill_add_tool_arg(tool, key, value): the tool with one more argument.
skill_add_tool_arg(tool, key, value) ==
  [tool EXCEPT !.args = @ \o <<[key |-> key, value |-> value]>>]

FetchTool == skill_create_tool("fetch", "Fetch a page", "shell", "curl")

\* Tool arrays a host-built manifest carries in the registration scenarios.
RegisterToolLists ==
  {<< >>,
   <<FetchTool>>,
   <<skill_create_tool("", "Fetch a page", "shell", "curl")>>,
   <<skill_create_tool("fetch", "", "shell", "curl")>>,
   <<skill_create_tool("fetch", "Fetch a page", "", "curl")>>,
   <<skill_create_tool("fetch", "Fetch a page", "shell", "")>>,
   <<FetchTool, skill_create_tool("push", "Push a page", "shell", "")>>,
   <<skill_create_tool("hook", "Call a hook", "http", "")>>}

\* The manifests of the registration scenarios.
RegisterManifests ==
  {[ZeroManifest EXCEPT !.name = n, !.description = d] :
     n \in {"", "git-tools"}, d \in {"", "Git helpers"}}
  \cup {[ZeroManifest EXCEPT !.name = "unknown", !.description = "Other"]}
  \cup {[ZeroManifest EXCEPT !.name = "git-tools",
                             !.description = "Git helpers",
                             !.version = "0.1.0", !.tools = t] :
          t \in RegisterToolLists}

\* The host allocates a skill_t and fills in manifest m.
HostCreateSkill(m) ==
  /\ fault = "none"
  /\ UNCHANGED env
  /\ NoExec
  /\ UNCHANGED clock
  /\ FreeIds(heap) # {}
  /\ op' = [name |-> "create", arg |-> NextId(heap)]
  /\ ret' = NO_RESULT
  /\ NoOut
  /\ heap' = [heap EXCEPT ![NextId(heap)] =
                [st |-> "live", manifest |-> m, loaded |-> TRUE,
                 load_time |-> clock]]
  /\ UNCHANGED <<initialized, capacity, reg, fault>>

-----------------------------------------------------------------------------
(* Manifests as text                                                       *)

\* TOML manifest texts, by what their [skill] table and [[tools]] tables
\* declare.
TomlTexts ==
  [name : {"git-wt", "weather", "unknown"},
   description : {"", "Git workspace tools", "Say \"hi\""},
   version : {"1.0.0", "0.1.0"},
   tags : {<< >>, <<"git">>, <<"git", "workspace">>, <<"workspace", "git">>},
   tools : {<< >>, <<FetchTool>>,
            <<FetchTool, skill_create_tool("push", "Push a page", "shell",
                                           "git push")>>}]

\* json_escape_string: '"' is written as '\"'; no other character of the
\* model's strings needs an escape.
json_escape_string(str) ==
  IF str = "Say \"hi\"" THEN "Say \\\"hi\\\"" ELSE str

RECURSIVE EscapeAll(_)
EscapeAll(strs) ==
  IF strs = << >> THEN << >>
  ELSE <<json_escape_string(Head(strs))>> \o EscapeAll(Tail(strs))

\* The JSON object skill_manifest_to_json writes for one tool.
RECURSIVE ToolsToJson(_)
ToolsToJson(tools) ==
  IF tools = << >> THEN << >>
  ELSE <<[name |-> json_escape_string(Head(tools).name),
          description |-> json_escape_string(Head(tools).description),
          kind |-> json_escape_string(Head(tools).kind),
          command |-> json_escape_string(Head(tools).command)]>>
       \o ToolsToJson(Tail(tools))

\* skill_manifest_to_json(manifest, out_json): the members written, in
\* order.  The first loop over the tags writes the strings and a closing
\* bracket without a key (member ""); author and prompts are written only
\* when present.
skill_manifest_to_json(m) ==
  <<[key |-> "name", value |-> json_escape_string(m.name)],
    [key |-> "description", value |-> json_escape_string(m.description)],
    [key |-> "version", value |-> json_escape_string(m.version)]>>
  \o (IF m.author # ""
        THEN <<[key |-> "author", value |-> json_escape_string(m.author)]>>
        ELSE << >>)
  \o <<[key |-> "", value |-> EscapeAll(m.tags)],
       [key |-> "tags", value |-> EscapeAll(m.tags)],
       [key |-> "tools", value |-> ToolsToJson(m.tools)]>>
  \o (IF m.prompts # << >>
        THEN <<[key |-> "prompts", value |-> EscapeAll(m.prompts)]>>
        ELSE << >>)
  \o <<[key |-> "location", value |-> m.location]>>

\* The host parses a TOML text and prints the manifest it got as JSON.
ManifestFromToml(text) ==
  /\ fault = "none"
  /\ UNCHANGED env
  /\ NoManifest
  /\ op' = [name |-> "to_json", arg |-> text]
  /\ LET parsed == skill_manifest_parse_toml(text) IN
       /\ ret' = parsed.err
       /\ outJson' = IF parsed.err = ERR_OK
                       THEN skill_manifest_to_json(parsed.manifest)
                       ELSE << >>
  /\ NoOut
  /\ toolResult' = NoToolResult
  /\ shellRun' = << >>
  /\ outPrompt' = << >>
  /\ NoExtension
  /\ UNCHANGED <<initialized, capacity, reg, heap, fault, clock>>

-----------------------------------------------------------------------------
(* Tool execution                                                          *)

\* The manifests of the execution scenarios: a shell tool, the echo
\* builtin, a builtin with another selector, an http tool, and a second
\* tool named like the first.
ExecuteTools ==
  <<skill_create_tool("build", "Build the tree", "shell", "make"),
    skill_create_tool("echo", "Echo the arguments", "builtin", "echo"),
    skill_create_tool("frob", "Frobnicate", "builtin", "frob"),
    skill_create_tool("hook", "Call a hook", "http", "http://hook"),
    skill_create_tool("build", "Echo instead", "builtin", "echo")>>

ExecuteManifests ==
  {[ZeroManifest EXCEPT !.name = "builder", !.description = "Build helpers",
                        !.version = "0.1.0", !.tools = ExecuteTools]}

ToolNames == {NULL_NAME, "build", "echo", "frob", "hook", "missing"}

\* The args of a call: NULL, or one option.
ToolArgs == {NULL_NAME, "-v"}

\* The out_result of a call of the json_t definition: NULL, a pointer for
\* which json_create_object gives an object, or one for which it gives NULL.
JsonResults == {"null", "object", "nomem"}

\* What shell_execute can return.
ShellOutcomes == {ERR_OK, ERR_FAILED}

\* shell_execute(command, output): the collaborator's outcome err is the
\* environment's; on success the output is the command's.
shell_execute(command, err) ==
  [err |-> err,
   output |-> IF err = ERR_OK THEN <<"stdout of">> \o command ELSE << >>]

\* A tool lookup that takes the first tool whatever its name.
FindToolAny(tools, tool_name) == IF tools = << >> THEN 0 ELSE 1

\* The loop that finds the tool: the index of the first tool of that name,
\* 0 when there is none.
FindTool(tools, tool_name) ==
  IF \E i \in 1..Len(tools) : tools[i].name = tool_name
    THEN CHOOSE i \in 1..Len(tools) :
           /\ tools[i].name = tool_name
           /\ \A j \in 1..(i - 1) : tools[j].name # tool_name
    ELSE 0

\* args && args->len > 0
HasArgs(args) == args # NULL_NAME /\ args # ""

\* The shell branch of skill_execute_tool.
ExecuteShell(tool, args, shellErr) ==
  LET command == <<tool.command>>
                 \o (IF HasArgs(args) THEN <<" ", args>> ELSE << >>)
      run == shell_execute(command, shellErr)
  IN [err |-> run.err,
      run |-> <<command>>,
      result |-> IF run.err = ERR_OK
                   THEN [written |-> TRUE, success |-> TRUE, exit_code |-> 0,
                         output |-> run.output]
                   ELSE [written |-> TRUE, success |-> FALSE,
                         exit_code |-> -1,
                         output |-> <<"Command execution failed">>]]

\* A builtin branch that answers every selector like echo.
ExecuteBuiltinAnySelector(tool, args) ==
  [err |-> ERR_OK,
   run |-> << >>,
   result |-> [written |-> TRUE, success |-> TRUE, exit_code |-> 0,
               output |-> <<"Echo from skill">>
                          \o (IF HasArgs(args) THEN <<": ", args>>
                                                ELSE << >>)]]

\* The builtin branch of skill_execute_tool.
ExecuteBuiltin(tool, args) ==
  [err |-> ERR_OK,
   run |-> << >>,
   result |-> IF tool.command = "echo"
                THEN [written |-> TRUE, success |-> TRUE, exit_code |-> 0,
                      output |-> <<"Echo from skill">>
                                 \o (IF HasArgs(args) THEN <<": ", args>>
                                                       ELSE << >>)]
                ELSE [written |-> TRUE, success |-> FALSE, exit_code |-> -1,
                      output |-> <<"Unknown built-in tool: ",
                                   tool.command>>]]

\* The last branch of skill_execute_tool: any other kind.
ExecuteUnsupported(tool) ==
  [err |-> ERR_NOT_IMPLEMENTED,
   run |-> << >>,
   result |-> [written |-> TRUE, success |-> FALSE, exit_code |-> -1,
               output |-> <<"Unsupported tool kind: ", tool.kind>>]]

\* skill_execute_tool(skill, tool_name, args, result): the error returned,
\* the commands handed to shell_execute and what is written to *result
\* (nothing when result is NULL).
skill_execute_tool(s, tool_name, args, resultGiven, shellErr) ==
  IF s = NULL \/ tool_name = NULL_NAME \/ ~heap[s].loaded
    THEN [err |-> ERR_INVALID_ARGUMENT, run |-> << >>,
          result |-> NoToolResult]
    ELSE
      LET tools == heap[s].manifest.tools
          i == FindTool(tools, tool_name)
          r == IF tools[i].kind = "shell"
                 THEN ExecuteShell(tools[i], args, shellErr)
               ELSE IF tools[i].kind = "builtin"
                 THEN ExecuteBuiltin(tools[i], args)
               ELSE ExecuteUnsupported(tools[i])
      IN IF i = 0
           THEN [err |-> ERR_NOT_FOUND, run |-> << >>,
                 result |-> NoToolResult]
           ELSE [r EXCEPT !.result = IF resultGiven THEN r.result
                                                    ELSE NoToolResult]

\* skill_execute_tool called by the host.
SkillExecuteTool(s, tool_name, args, resultGiven, shellErr) ==
  /\ fault = "none"
  /\ UNCHANGED env
  /\ NoManifest
  /\ op' = [name |-> "execute",
            arg |-> [skill |-> s, tool_name |-> tool_name, args |-> args,
                     result |-> resultGiven, shell |-> shellErr]]
  /\ LET r == skill_execute_tool(s, tool_name, args, resultGiven, shellErr)
     IN /\ ret' = r.err
        /\ toolResult' = r.result
        /\ shellRun' = r.run
  /\ outJson' = << >>
  /\ outPrompt' = << >>
  /\ NoExtension
  /\ NoOut
  /\ UNCHANGED <<initialized, capacity, reg, heap, fault, clock>>

\* The definition that takes its arguments and gives its result as json_t:
\* args are the values of the pairs of a JSON object (none when args is
\* NULL or no object); the result object has no exit code.
skill_execute_tool_json(s, tool_name, args, out_result, shellErr) ==
  IF s = NULL \/ tool_name = NULL_NAME \/ ~heap[s].loaded
    THEN [err |-> ERR_INVALID_ARGUMENT, run |-> << >>,
          result |-> NoToolResult]
    ELSE
      LET tools == heap[s].manifest.tools
          i == FindTool(tools, tool_name)
          written == out_result = "object"
          command == <<tools[i].command>>
                     \o (IF HasArgs(args) THEN <<" ", args>> ELSE << >>)
          run == shell_execute(command, shellErr)
      IN IF i = 0
           THEN [err |-> ERR_NOT_FOUND, run |-> << >>,
                 result |-> NoToolResult]
         ELSE IF tools[i].kind = "shell"
           THEN [err |-> run.err,
                 run |-> <<command>>,
                 result |-> IF run.err = ERR_OK /\ written
                              THEN [written |-> TRUE, success |-> TRUE,
                                    exit_code |-> 0, output |-> run.output]
                              ELSE NoToolResult]
         ELSE IF tools[i].kind = "builtin" /\ tools[i].command = "echo"
           THEN [err |-> ERR_OK,
                 run |-> << >>,
                 result |-> IF written
                              THEN [written |-> TRUE, success |-> TRUE,
                                    exit_code |-> 0,
                                    output |-> <<"Echo from skill">>]
                              ELSE NoToolResult]
         ELSE [err |-> ERR_NOT_IMPLEMENTED, run |-> << >>,
               result |-> NoToolResult]

\* The json_t definition called by the host.
SkillExecuteToolJson(s, tool_name, args, out_result, shellErr) ==
  /\ fault = "none"
  /\ UNCHANGED env
  /\ NoManifest
  /\ op' = [name |-> "execute_json",
            arg |-> [skill |-> s, tool_name |-> tool_name, args |-> args,
                     result |-> out_result, shell |-> shellErr]]
  /\ LET r == skill_execute_tool_json(s, tool_name, args, out_result,
                                      shellErr)
     IN /\ ret' = r.err
        /\ toolResult' = r.result
        /\ shellRun' = r.run
  /\ outJson' = << >>
  /\ outPrompt' = << >>
  /\ NoExtension
  /\ NoOut
  /\ UNCHANGED <<initialized, capacity, reg, heap, fault, clock>>

-----------------------------------------------------------------------------
(* Prompts                                                                 *)

\* The manifests of the prompt scenarios: one with tools and prompt
\* templates, one with neither.
PromptManifests ==
  {[ZeroManifest EXCEPT !.name = "builder", !.description = "Build helpers",
                        !.version = "0.1.0",
                        !.tools = <<FetchTool,
                                    skill_create_tool("push", "Push a page",
                                                      "shell", "git push")>>,
                        !.prompts = <<"Be brief", "Ask first">>],
   [ZeroManifest EXCEPT !.name = "notes", !.description = "Take notes",
                        !.version = "0.1.0"]}

\* str_append(s, text) with the data pointer of a str_t: an empty string
\* has a NULL data pointer and nothing is appended.
AppendData(str) == IF str = "" THEN << >> ELSE <<str>>

RECURSIVE ToolsToPrompt(_)
ToolsToPrompt(tools) ==
  IF tools = << >> THEN << >>
  ELSE <<"### ">> \o AppendData(Head(tools).name) \o <<"\n">>
       \o AppendData(Head(tools).description) \o <<"\n\n">>
       \o ToolsToPrompt(Tail(tools))

\* The prompt templates from the i-th on, numbered from i.
RECURSIVE PromptsToPrompt(_, _)
PromptsToPrompt(prompts, i) ==
  IF i > Len(prompts) THEN << >>
  ELSE <<"### Prompt ", ToString(i), "\n\n">> \o AppendData(prompts[i])
       \o <<"\n\n">> \o PromptsToPrompt(prompts, i + 1)

\* skill_manifest_to_prompt(manifest, out_prompt)
skill_manifest_to_prompt(m) ==
  <<"# Skill: ">> \o AppendData(m.name) \o <<"\n\n">>
  \o AppendData(m.description) \o <<"\n\n">>
  \o (IF Len(m.tools) > 0
        THEN <<"## Available Tools\n\n">> \o ToolsToPrompt(m.tools)
        ELSE << >>)
  \o (IF Len(m.prompts) > 0
        THEN <<"## Prompt Templates\n\n">> \o PromptsToPrompt(m.prompts, 1)
        ELSE << >>)

\* A loop that prints every non-null entry, loaded or not.
RECURSIVE SkillPromptsUnchecked(_)
SkillPromptsUnchecked(skills) ==
  IF skills = << >> THEN << >>
  ELSE (IF Head(skills) = NULL
          THEN << >>
          ELSE skill_manifest_to_prompt(heap[Head(skills)].manifest)
               \o <<"\n---\n\n">>)
       \o SkillPromptsUnchecked(Tail(skills))

\* The loop of skills_to_system_prompt over skills[0 .. skill_count-1].
RECURSIVE SkillPrompts(_)
SkillPrompts(skills) ==
  IF skills = << >> THEN << >>
  ELSE (IF Head(skills) = NULL \/ ~heap[Head(skills)].loaded
          THEN << >>
          ELSE skill_manifest_to_prompt(heap[Head(skills)].manifest)
               \o <<"\n---\n\n">>)
       \o SkillPrompts(Tail(skills))

\* The skills arrays a host passes: the registry's list, or any array of
\* pointers it holds and NULLs.
SkillArrays ==
  {reg} \cup UNION {[1..n -> Held \cup {NULL}] : n \in 0..MaxSkills}

\* skills_to_system_prompt(skills, skill_count, out_prompt); skillsGiven is
\* whether the skills pointer is non-NULL.
skills_to_system_prompt(skillsGiven, skills) ==
  /\ fault = "none"
  /\ UNCHANGED env
  /\ NoManifest
  /\ op' = [name |-> "system_prompt",
            arg |-> [given |-> skillsGiven, skills |-> skills]]
  /\ IF ~skillsGiven
       THEN /\ ret' = ERR_INVALID_ARGUMENT
            /\ outPrompt' = << >>
       ELSE /\ ret' = ERR_OK
            /\ outPrompt' = <<"# Available Skills\n\n">>
                              \o SkillPrompts(skills)
  /\ NoOut
  /\ toolResult' = NoToolResult
  /\ shellRun' = << >>
  /\ outJson' = << >>
  /\ NoExtension
  /\ UNCHANGED <<initialized, capacity, reg, heap, fault, clock>>

-----------------------------------------------------------------------------
(* Open skills synchronisation                                             *)

\* A bool return value.
BoolRet(b) == IF b THEN "true" ELSE "false"

\* fopen(marker_path, "w") succeeds: the repository directory exists.
CanCreateMarker(repo_dir) == CanOpenDir(repo_dir)

\* A staleness test that is also true at exactly the interval.
IsStaleInclusive(now, last_sync) ==
  (now - last_sync) >= OPEN_SKILLS_SYNC_INTERVAL_SECS

\* (now - last_sync) > OPEN_SKILLS_SYNC_INTERVAL_SECS
IsStale(now, last_sync) == (now - last_sync) > OPEN_SKILLS_SYNC_INTERVAL_SECS

\* skill_should_sync_open_skills(repo_dir); statFails is stat failing on a
\* marker file that exists.
skill_should_sync_open_skills(repo_dir, statFails) ==
  /\ fault = "none"
  /\ op' = [name |-> "should_sync",
            arg |-> [repo_dir |-> repo_dir, stat |-> statFails]]
  /\ ret' = IF repo_dir = NULL_NAME THEN BoolRet(FALSE)
            ELSE IF marker[repo_dir] = NO_MARKER THEN BoolRet(TRUE)
            ELSE IF statFails THEN BoolRet(TRUE)
            ELSE BoolRet(IsStale(clock, marker[repo_dir]))
  /\ NoOut
  /\ NoExec
  /\ UNCHANGED <<initialized, capacity, reg, heap, fault, clock, marker>>
  /\ UNCHANGED callers

\* skill_mark_open_skills_synced(repo_dir)
skill_mark_open_skills_synced(repo_dir) ==
  /\ fault = "none"
  /\ op' = [name |-> "mark_synced", arg |-> repo_dir]
  /\ IF repo_dir = NULL_NAME
       THEN /\ ret' = ERR_INVALID_ARGUMENT
            /\ marker' = marker
       ELSE IF ~CanCreateMarker(repo_dir)
         THEN /\ ret' = ERR_FILE_CREATE_FAILED
              /\ marker' = marker
         ELSE /\ ret' = ERR_OK
              /\ marker' = [marker EXCEPT ![repo_dir] = clock]
  /\ NoOut
  /\ NoExec
  /\ UNCHANGED <<initialized, capacity, reg, heap, fault, clock>>
  /\ UNCHANGED callers

\* The times at which the host calls in the sync scenarios: the seconds
\* around every multiple of the sync interval.
SyncTimes ==
  {k * OPEN_SKILLS_SYNC_INTERVAL_SECS + j : k \in 0..MaxSyncIntervals,
                                            j \in 0..2}

\* Time passes until t.
Advance(t) ==
  /\ fault = "none"
  /\ t > clock
  /\ clock' = t
  /\ op' = [name |-> "tick", arg |-> NULL]
  /\ ret' = NO_RESULT
  /\ NoOut
  /\ NoExec
  /\ UNCHANGED <<initialized, capacity, reg, heap, fault, marker>>
  /\ UNCHANGED callers

-----------------------------------------------------------------------------
(* Tools offered to the extension framework                                *)

TOOL_TYPE_SHELL == "TOOL_TYPE_SHELL"
TOOL_TYPE_BUILTIN == "TOOL_TYPE_BUILTIN"
TOOL_TYPE_HTTP == "TOOL_TYPE_HTTP"
TOOL_TYPE_CUSTOM == "TOOL_TYPE_CUSTOM"

\* The tools of the extension scenarios: one of each kind, with no, one and
\* two declared arguments.
LintTool ==
  skill_add_tool_arg(
    skill_add_tool_arg(skill_create_tool("lint", "Lint a file", "script",
                                         "lint.sh"),
                       "file", "path"),
    "level", "strict")

ExtensionTools ==
  {skill_add_tool_arg(FetchTool, "url", "address"),
   skill_create_tool("echo", "Echo the arguments", "builtin", "echo"),
   skill_create_tool("hook", "Call a hook", "http", ""),
   LintTool}

ExtensionManifests ==
  {[ZeroManifest EXCEPT !.name = "web", !.description = "Web helpers",
                        !.version = "0.1.0", !.tools = t] :
     t \in {<< >>,
            <<LintTool>>,
            <<skill_add_tool_arg(FetchTool, "url", "address"),
              skill_create_tool("hook", "Call a hook", "http", ""),
              LintTool>>}}

\* The chain of str_equals on the kind of the tool.
ToolType(kind) ==
  IF kind = "shell" THEN TOOL_TYPE_SHELL
  ELSE IF kind = "builtin" THEN TOOL_TYPE_BUILTIN
  ELSE IF kind = "http" THEN TOOL_TYPE_HTTP
  ELSE TOOL_TYPE_CUSTOM

\* skill_tool_to_extension(skill_tool, out_tool_def); the arguments say
\* whether the two pointers are non-NULL.  The parameters stay as memset
\* left them: the args of the tool are not converted.
skill_tool_to_extension(toolGiven, tool, outGiven) ==
  IF ~toolGiven \/ ~outGiven
    THEN [err |-> ERR_INVALID_ARGUMENT, def |-> NoToolDef]
    ELSE [err |-> ERR_OK,
          def |-> [written |-> TRUE,
                   name |-> tool.name,
                   description |-> tool.description,
                   type |-> ToolType(tool.kind),
                   command |-> tool.command,
                   parameters |-> << >>]]

\* skill_tool_to_extension called by the host.
SkillToolToExtension(toolGiven, tool, outGiven) ==
  /\ fault = "none"
  /\ UNCHANGED env
  /\ NoManifest
  /\ op' = [name |-> "to_extension",
            arg |-> [given |-> toolGiven, tool |-> tool, out |-> outGiven]]
  /\ ret' = skill_tool_to_extension(toolGiven, tool, outGiven).err
  /\ outToolDef' = skill_tool_to_extension(toolGiven, tool, outGiven).def
  /\ hostCalls' = << >>
  /\ NoOut
  /\ toolResult' = NoToolResult
  /\ shellRun' = << >>
  /\ outJson' = << >>
  /\ outPrompt' = << >>
  /\ UNCHANGED <<initialized, capacity, reg, heap, fault, clock>>

\* The calls of api->register_tool for which the host returns an error.
HostFailures == SUBSET (1..3)

\* A loop that goes on to the next tool after the host refused one.
RECURSIVE RegisterLoopNoStop(_, _, _)
RegisterLoopNoStop(tools, i, hostFails) ==
  IF i > Len(tools) THEN [err |-> ERR_OK, calls |-> << >>]
  ELSE LET def == skill_tool_to_extension(TRUE, tools[i], TRUE).def
           err == IF i \in hostFails THEN ERR_FAILED ELSE ERR_OK
           rest == RegisterLoopNoStop(tools, i + 1, hostFails)
       IN [err |-> rest.err,
           calls |-> <<[def |-> def, err |-> err]>> \o rest.calls]

\* The loop of skill_register_tools from the i-th tool on: the error it
\* returns and the calls of api->register_tool it makes.
RECURSIVE RegisterLoop(_, _, _)
RegisterLoop(tools, i, hostFails) ==
  IF i > Len(tools) THEN [err |-> ERR_OK, calls |-> << >>]
  ELSE LET conv == skill_tool_to_extension(TRUE, tools[i], TRUE)
           err == IF i \in hostFails THEN ERR_FAILED ELSE ERR_OK
           rest == RegisterLoop(tools, i + 1, hostFails)
       IN IF conv.err # ERR_OK THEN [err |-> conv.err, calls |-> << >>]
          ELSE IF err # ERR_OK
            THEN [err |-> err, calls |-> <<[def |-> conv.def, err |-> err]>>]
          ELSE [err |-> rest.err,
                calls |-> <<[def |-> conv.def, err |-> err]>> \o rest.calls]

\* skill_register_tools(skill, api)
skill_register_tools(s, apiGiven, hostFails) ==
  /\ fault = "none"
  /\ UNCHANGED env
  /\ NoManifest
  /\ op' = [name |-> "register_tools",
            arg |-> [skill |-> s, api |-> apiGiven, fails |-> hostFails]]
  /\ IF s = NULL \/ ~apiGiven \/ ~heap[s].loaded
       THEN /\ ret' = ERR_INVALID_ARGUMENT
            /\ hostCalls' = << >>
       ELSE /\ ret' = RegisterLoop(heap[s].manifest.tools, 1, hostFails).err
            /\ hostCalls' =
                 RegisterLoop(heap[s].manifest.tools, 1, hostFails).calls
  /\ outToolDef' = NoToolDef
  /\ NoOut
  /\ toolResult' = NoToolResult
  /\ shellRun' = << >>
  /\ outJson' = << >>
  /\ outPrompt' = << >>
  /\ UNCHANGED <<initialized, capacity, reg, heap, fault, clock>>

-----------------------------------------------------------------------------
(* The Markdown parser called by the host                                  *)

\* The documents of the parser scenarios, as their lines.
MdLines == {"", "# Title", "## Usage", "Does things", "Ask before use"}

MdDocuments == UNION {[1..n -> MdLines] : n \in 0..MaxLines}

\* skill_manifest_parse_md(md_content, skill_name, out_manifest) called by
\* the host.  dataNull: md_content is an empty str_t whose data pointer is
\* NULL, as str_init leaves it; the loop reads *data.
SkillManifestParseMd(lines, nameGiven, skill_name, dataNull) ==
  /\ fault = "none"
  /\ UNCHANGED env
  /\ dataNull => lines = << >>
  /\ op' = [name |-> "parse_md",
            arg |-> [lines |-> lines, given |-> nameGiven,
                     skill_name |-> skill_name, null |-> dataNull]]
  /\ IF ~nameGiven
       THEN /\ ret' = ERR_INVALID_ARGUMENT
            /\ outManifest' = ZeroManifest
            /\ fault' = fault
       ELSE IF dataNull
         THEN /\ ret' = NO_RESULT
              /\ outManifest' = [ZeroManifest EXCEPT !.name = skill_name]
              /\ fault' = "segv"
         ELSE /\ ret' = skill_manifest_parse_md(lines, skill_name).err
              /\ outManifest' =
                   skill_manifest_parse_md(lines, skill_name).manifest
              /\ fault' = fault
  /\ NoOut
  /\ toolResult' = NoToolResult
  /\ shellRun' = << >>
  /\ outJson' = << >>
  /\ outPrompt' = << >>
  /\ NoExtension
  /\ UNCHANGED <<initialized, capacity, reg, heap, clock>>

\* The host's clock moves on.
Tick ==
  /\ fault = "none"
  /\ UNCHANGED env
  /\ clock < MaxTime
  /\ clock' = clock + 1
  /\ op' = [name |-> "tick", arg |-> NULL]
  /\ ret' = NO_RESULT
  /\ NoOut
  /\ NoExec
  /\ UNCHANGED <<initialized, capacity, reg, heap, fault>>

Next ==
  \/ skill_registry_init
  \/ skill_registry_shutdown
  \/ \E p \in LoadPaths, c \in BOOLEAN : SkillLoad(p, c)
  \/ \E s \in Held \cup {NULL} : SkillUnload(s)
  \/ \E s \in Held \cup {NULL}, c \in BOOLEAN : skill_reload(s, c)
  \/ \E n \in Names \cup {NULL_NAME} : skill_registry_find(n)
  \/ skill_registry_list
  \/ \E s \in Held \cup {NULL}, f \in BOOLEAN : skill_register(s, f)
  \/ \E n \in Names \cup {NULL_NAME} : skill_unregister(n)
  \/ \E d \in Dirs : skill_load_from_directory(d)

Spec == Init /\ [][Next]_vars

\* A registry that is filled by skill_register alone, with skills the host
\* got from skill_load.
NextRegister ==
  \/ \E p \in LoadPaths, c \in BOOLEAN : SkillLoad(p, c)
  \/ \E s \in Held \cup {NULL}, f \in BOOLEAN : skill_register(s, f)

SpecRegister == Init /\ [][NextRegister]_vars

\* skill_register on skills the host built, tools included.
NextValidate ==
  \/ \E m \in RegisterManifests : HostCreateSkill(m)
  \/ \E s \in Held \cup {NULL}, f \in BOOLEAN : skill_register(s, f)

SpecValidate == Init /\ [][NextValidate]_vars

\* The loader alone: skills are loaded, unloaded and reloaded while time
\* passes.
NextLoad ==
  \/ Tick
  \/ \E p \in LoadPaths, c \in BOOLEAN : SkillLoad(p, c)
  \/ \E s \in Held \cup {NULL} : SkillUnload(s)
  \/ \E s \in Held \cup {NULL}, c \in BOOLEAN : skill_reload(s, c)

SpecLoad == Init /\ [][NextLoad]_vars

\* Skills built by the host are unloaded and their tools run.
NextExecute ==
  \/ \E m \in ExecuteManifests :
       Cardinality(Held) < MaxToolSkills /\ HostCreateSkill(m)
  \/ \E s \in Held \cup {NULL} : SkillUnload(s)
  \/ \E s \in Held \cup {NULL}, tool_name \in ToolNames, args \in ToolArgs,
        resultGiven \in BOOLEAN, shellErr \in ShellOutcomes :
       SkillExecuteTool(s, tool_name, args, resultGiven, shellErr)
  \/ \E s \in Held \cup {NULL}, tool_name \in ToolNames, args \in ToolArgs,
        out_result \in JsonResults, shellErr \in ShellOutcomes :
       SkillExecuteToolJson(s, tool_name, args, out_result, shellErr)

SpecExecute == Init /\ [][NextExecute]_vars

\* Skills built by the host are unloaded and printed as a system prompt.
NextPrompt ==
  \/ \E m \in PromptManifests : HostCreateSkill(m)
  \/ \E s \in Held \cup {NULL} : SkillUnload(s)
  \/ \E skills \in SkillArrays : skills_to_system_prompt(TRUE, skills)
  \/ skills_to_system_prompt(FALSE, << >>)

SpecPrompt == Init /\ [][NextPrompt]_vars

\* The open skills repositories are marked and tested as time passes.
NextSync ==
  \/ \E t \in SyncTimes : Advance(t)
  \/ \E r \in RepoDirs \cup {NULL_NAME} : skill_mark_open_skills_synced(r)
  \/ \E r \in RepoDirs \cup {NULL_NAME}, f \in BOOLEAN :
       skill_should_sync_open_skills(r, f)

SpecSync == Init /\ [][NextSync]_vars

\* Tools are converted and the tools of skills offered to the host.
NextExtension ==
  \/ \E m \in ExtensionManifests :
       Cardinality(Held) < MaxToolSkills /\ HostCreateSkill(m)
  \/ \E s \in Held \cup {NULL} : SkillUnload(s)
  \/ \E tool \in ExtensionTools, toolGiven, outGiven \in BOOLEAN :
       SkillToolToExtension(toolGiven, tool, outGiven)
  \/ \E s \in Held \cup {NULL}, apiGiven \in BOOLEAN,
        hostFails \in HostFailures :
       skill_register_tools(s, apiGiven, hostFails)

SpecExtension == Init /\ [][NextExtension]_vars

\* The host holds MaxRegistered skills with names of their own.
InitCapacity ==
  /\ initialized = FALSE
  /\ capacity = 0
  /\ reg = << >>
  /\ heap = [s \in 1..MaxRegistered |->
              [st |-> "live",
               manifest |-> [ZeroManifest EXCEPT !.name = ToString(s),
                                                 !.description = "A skill"],
               loaded |-> TRUE, load_time |-> 1]]
  /\ fault = "none"
  /\ op = [name |-> "start", arg |-> NULL]
  /\ ret = NO_RESULT
  /\ outWritten = FALSE
  /\ outSkill = NULL
  /\ outSkills = << >>
  /\ scanLog = << >>
  /\ toolResult = NoToolResult
  /\ shellRun = << >>
  /\ outJson = << >>
  /\ outPrompt = << >>
  /\ outToolDef = NoToolDef
  /\ hostCalls = << >>
  /\ outManifest = ZeroManifest
  /\ clock = 1
  /\ marker = [d \in RepoDirs |-> NO_MARKER]
  /\ locking = FALSE
  /\ lockHolder = 0
  /\ threads = [t \in Threads |-> IdleThread]

\* The host registers its skills in the order of their ids and unregisters
\* the first or the last entry of the registry.
NextCapacity ==
  \/ skill_registry_init
  \/ skill_registry_shutdown
  \/ \E s \in Held, f \in BOOLEAN :
       /\ \A i \in 1..Len(reg) : reg[i] < s
       /\ \A t \in Held : (\A i \in 1..Len(reg) : reg[i] < t) => s <= t
       /\ skill_register(s, f)
  \/ \E i \in {1, Len(reg)} \cap (1..Len(reg)) :
       skill_unregister(heap[reg[i]].manifest.name)

SpecCapacity == InitCapacity /\ [][NextCapacity]_vars

\* Files of every suffix are loaded.
NextDialect ==
  \/ \E p \in DialectPaths, c \in BOOLEAN : SkillLoad(p, c)
  \/ \E s \in Held \cup {NULL} : SkillUnload(s)

SpecDialect == Init /\ [][NextDialect]_vars

\* Markdown documents are parsed.
NextParseMd ==
  \E lines \in MdDocuments, nameGiven, dataNull \in BOOLEAN,
     skill_name \in {"notes", "git-tools"} :
    SkillManifestParseMd(lines, nameGiven, skill_name, dataNull)

SpecParseMd == Init /\ [][NextParseMd]_vars

-----------------------------------------------------------------------------
(* Two host threads and the registry                                       *)

\* The manifests the threads' skills carry: two names, one of them with two
\* descriptions.
ConcurrentManifests ==
  {[ZeroManifest EXCEPT !.name = "git-tools", !.description = "Git helpers"],
   [ZeroManifest EXCEPT !.name = "git-tools", !.description = "Other"],
   [ZeroManifest EXCEPT !.name = "notes", !.description = "Take notes"]}

\* The first part of skill_register without the scan for the name.
RegisterScanNoCollision(s) ==
  IF s = NULL THEN ERR_INVALID_ARGUMENT
  ELSE skill_validate(heap[s])

\* The first part of skill_register: the argument test, skill_validate and
\* the scan of the registry for the skill's name.  ERR_OK: the call goes on
\* to the append.
RegisterScanResult(s) ==
  IF s = NULL THEN ERR_INVALID_ARGUMENT
  ELSE IF skill_validate(heap[s]) # ERR_OK THEN skill_validate(heap[s])
  ELSE IF FirstIndex(reg, heap, heap[s].manifest.name) # 0
    THEN ERR_ALREADY_EXISTS
  ELSE ERR_OK

\* Thread t may start a registry call: it is in none, and a host that
\* serialises its calls finds the lock free.
MayEnter(t) ==
  /\ threads[t].pc # "scanned"
  /\ locking => lockHolder = 0

\* Another thread is between its scan and its append with a skill of the
\* name of s.
ScansOverlap(t, s) ==
  \E u \in Threads \ {t} :
    /\ threads[u].pc = "scanned"
    /\ heap[threads[u].skill].manifest.name = heap[s].manifest.name

\* No pair of overlapping skill_register calls is under way or just over.
Undisturbed == \A t \in Threads : ~threads[t].overlap

\* Thread t runs skill_register(s) up to the end of the scan loop.
RegisterScan(t, s) ==
  /\ fault = "none"
  /\ MayEnter(t)
  /\ NoExec
  /\ NoOut
  /\ op' = [name |-> "register_scan", arg |-> [thread |-> t, skill |-> s]]
  /\ IF RegisterScanResult(s) # ERR_OK
       THEN /\ ret' = RegisterScanResult(s)
            /\ threads' = [threads EXCEPT ![t] =
                             [pc |-> "done", skill |-> s,
                              ret |-> RegisterScanResult(s),
                              overlap |-> FALSE]]
            /\ lockHolder' = lockHolder
       ELSE /\ ret' = NO_RESULT
            /\ threads' =
                 [u \in Threads |->
                    IF u = t
                      THEN [pc |-> "scanned", skill |-> s, ret |-> NO_RESULT,
                            overlap |-> ScansOverlap(t, s)]
                    ELSE IF /\ threads[u].pc = "scanned"
                            /\ heap[threads[u].skill].manifest.name
                                 = heap[s].manifest.name
                      THEN [threads[u] EXCEPT !.overlap = TRUE]
                    ELSE threads[u]]
            /\ lockHolder' = IF locking THEN t ELSE 0
  /\ UNCHANGED <<initialized, capacity, reg, heap, fault, clock, marker,
                 locking>>

\* Thread t runs the rest of its skill_register call: the growth of the
\* array and the store at skills[skill_count++].
RegisterAppend(t, reallocFails) ==
  /\ fault = "none"
  /\ threads[t].pc = "scanned"
  /\ NoExec
  /\ NoOut
  /\ op' = [name |-> "register_append",
            arg |-> [thread |-> t, skill |-> threads[t].skill]]
  /\ LET grown == skill_registry_ensure_capacity(
                    capacity, skill_count + 1, reallocFails)
     IN IF grown.err # ERR_OK
          THEN /\ ret' = grown.err
               /\ UNCHANGED <<capacity, reg>>
          ELSE /\ ret' = ERR_OK
               /\ capacity' = grown.capacity
               /\ reg' = Append(reg, threads[t].skill)
  /\ threads' = [threads EXCEPT ![t].pc = "done", ![t].ret = ret']
  /\ lockHolder' = 0
  /\ UNCHANGED <<initialized, heap, fault, clock, marker, locking>>

\* The host of every thread either puts one lock around its registry calls
\* or none.
InitConcurrent ==
  /\ initialized = FALSE
  /\ capacity = 0
  /\ reg = << >>
  /\ heap = [s \in SkillIds |-> ZeroSkill]
  /\ fault = "none"
  /\ op = [name |-> "start", arg |-> NULL]
  /\ ret = NO_RESULT
  /\ outWritten = FALSE
  /\ outSkill = NULL
  /\ outSkills = << >>
  /\ scanLog = << >>
  /\ toolResult = NoToolResult
  /\ shellRun = << >>
  /\ outJson = << >>
  /\ outPrompt = << >>
  /\ outToolDef = NoToolDef
  /\ hostCalls = << >>
  /\ outManifest = ZeroManifest
  /\ clock = 1
  /\ marker = [d \in RepoDirs |-> NO_MARKER]
  /\ locking \in BOOLEAN
  /\ lockHolder = 0
  /\ threads = [t \in Threads |-> IdleThread]

\* Two threads register skills; unregister, shutdown and init are whole
\* calls of a thread that is in no other call, and stay away from a pair of
\* overlapping skill_register calls.
NextConcurrent ==
  \/ \E m \in ConcurrentManifests :
       Cardinality(Held) < MaxToolSkills /\ HostCreateSkill(m)
  \/ \E t \in Threads, s \in Held \cup {NULL} : RegisterScan(t, s)
  \/ \E t \in Threads, f \in BOOLEAN : RegisterAppend(t, f)
  \/ \E t \in Threads, n \in {"git-tools", "notes"} :
       MayEnter(t) /\ Undisturbed /\ skill_unregister(n)
  \/ \E t \in Threads : MayEnter(t) /\ Undisturbed /\ skill_registry_shutdown
  \/ \E t \in Threads : MayEnter(t) /\ Undisturbed /\ skill_registry_init

SpecConcurrent == InitConcurrent /\ [][NextConcurrent]_vars

\* The name the host gives the skill it allocates as s: every second skill
\* carries the same name.
UnloadName(s) == ToString(((s - 1) % 2) + 1)

\* The manifest the host fills in for the skill it allocates as s.
UnloadManifest(s) ==
  [ZeroManifest EXCEPT !.name = UnloadName(s), !.description = "A skill",
                       !.version = "0.1.0", !.prompts = <<"Be brief">>]

\* The host registers skills, unloads them once, registered or not, and
\* looks at the registry afterwards.
NextUnload ==
  \/ /\ FreeIds(heap) # {}
     /\ HostCreateSkill(UnloadManifest(NextId(heap)))
  \/ \E s \in Held, f \in BOOLEAN : skill_register(s, f)
  \/ \E s \in Held \cup {NULL} :
       (s # NULL => heap[s].loaded) /\ SkillUnload(s)
  \/ \E s \in SkillIds : skill_registry_find(UnloadName(s))
  \/ \E s \in SkillIds : skill_unregister(UnloadName(s))
  \/ skill_registry_list
  \/ skills_to_system_prompt(TRUE, reg)

SpecUnload == Init /\ [][NextUnload]_vars

\* Manifest texts are parsed and printed.
NextManifest == \E text \in TomlTexts : ManifestFromToml(text)

SpecManifest == Init /\ [][NextManifest]_vars

-----------------------------------------------------------------------------
(* Vocabulary of the properties                                            *)

NameAt(r, h, i) == h[r[i]].manifest.name

NoDupNames(r, h) ==
  \A i, j \in 1..Len(r) : i # j => NameAt(r, h, i) # NameAt(r, h, j)

CountName(r, h, n) == Cardinality({i \in 1..Len(r) : NameAt(r, h, i) = n})

\* The entries a step appended to the registry.
Appended == SubSeq(reg', Len(reg) + 1, Len(reg'))

\* A step is a call of the named operation that returned (or died).
Called(name) == op'.name = name

\* The manifest file at path declares what the manifest invariants require:
\* a TOML file a name and a description, a Markdown file a description line.
WellFormed(path) ==
  /\ Node(path).type = "file"
  /\ Node(path).readable
  /\ IF str_ends_with(path, "toml") \/ Node(path).marker
       THEN Node(path).toml.name # "" /\ Node(path).toml.description # ""
       ELSE FirstContentLine(Node(path).lines) # ""

\* The path skill_load is called with for the i-th entry of directory d.
EntryPath(d, i) == SkillFilePath(d, DirEntries(d)[i])

\* A scan log of a call in which every allocation succeeded.
NoAllocationFailed(log) ==
  \A k \in 1..Len(log) : log[k].err # ERR_OUT_OF_MEMORY

-----------------------------------------------------------------------------
(* C1: in a registry filled by skill_register alone no two entries ever    *)
(* have equal manifest.name.  A register call whose skill passes           *)
(* skill_validate and bears the name of an existing entry returns          *)
(* ERR_ALREADY_EXISTS (one that fails skill_validate returns               *)
(* ERR_VALIDATION_FAILED), and every register call that does not return    *)
(* ERR_OK leaves entries, order, count and capacity as they were.          *)
C1_Collides ==
  /\ op'.arg # NULL
  /\ FirstIndex(reg, heap, heap[op'.arg].manifest.name) # 0

C1_RegisterUnique ==
  /\ []NoDupNames(reg, heap)
  /\ [][Called("register") =>
         /\ (C1_Collides /\ skill_validate(heap[op'.arg]) = ERR_OK)
              => ret' = ERR_ALREADY_EXISTS
         /\ (C1_Collides /\ skill_validate(heap[op'.arg]) # ERR_OK)
              => ret' = ERR_VALIDATION_FAILED
         /\ ret' # ERR_OK => (reg' = reg /\ capacity' = capacity)
         /\ ret' = ERR_OK => reg' = Append(reg, op'.arg)]_vars

\* C1 as stated: every register call whose skill bears the name of an
\* existing entry returns ERR_ALREADY_EXISTS.
C1_AsStated ==
  [][(Called("register") /\ C1_Collides) => ret' = ERR_ALREADY_EXISTS]_vars

\* A second skill of a registered name was turned down with
\* ERR_ALREADY_EXISTS, next to another entry.
C1_Witness ==
  /\ op.name = "register"
  /\ ret = ERR_ALREADY_EXISTS
  /\ Len(reg) >= 2
  /\ op.arg \notin {reg[i] : i \in 1..Len(reg)}

(* C2: in every reachable state no two registry entries share a            *)
(* manifest.name (stated for the states no allocation failure led to).     *)
C2_NoTwoEntriesShareAName ==
  (fault = "none" /\ NoAllocationFailed(scanLog)) => NoDupNames(reg, heap)

(* C3: when skill_load_from_directory has scanned one directory and then   *)
(* scans another that holds a manifest of a name the registry holds once,  *)
(* the registry holds that name once afterwards and find(name) still gives *)
(* the skill it gave before.                                               *)
C3_SecondDirectoryRejected ==
  [][(/\ op.name = "load_dir" /\ ret = ERR_OK
      /\ NoAllocationFailed(scanLog)
      /\ Called("load_dir") /\ ret' = ERR_OK /\ fault' = "none"
      /\ NoAllocationFailed(scanLog')
      /\ op'.arg # op.arg)
     => \A n \in Names :
          (/\ CountName(reg, heap, n) = 1
           /\ \E k \in 1..Len(scanLog') :
                /\ scanLog'[k].err = ERR_OK
                /\ \E s \in SkillIds :
                     /\ heap'[s].manifest.location = scanLog'[k].path
                     /\ heap'[s].manifest.name = n)
          => /\ CountName(reg', heap', n) = 1
             /\ reg'[FirstIndex(reg', heap', n)]
                  = reg[FirstIndex(reg, heap, n)]]_vars

(* C4: a scan in which no allocation failed hands back and appends to the  *)
(* registry exactly the well-formed manifests of the directory, and no     *)
(* file that is not well-formed becomes a registry entry.                  *)
C4_NumValid(d) ==
  Cardinality({i \in 1..Len(DirEntries(d)) :
                 EntryPath(d, i) # << >> /\ WellFormed(EntryPath(d, i))})

C4_FaultIsolation ==
  [][(/\ Called("load_dir") /\ ret' = ERR_OK /\ fault' = "none"
      /\ NoAllocationFailed(scanLog'))
     => /\ Len(outSkills') = C4_NumValid(op'.arg)
        /\ Len(reg') - Len(reg) = C4_NumValid(op'.arg)
        /\ \A i \in 1..Len(Appended) :
             WellFormed(heap'[Appended[i]].manifest.location)]_vars

(* C5: a failing skill_load never ends the scan.  Every entry is visited   *)
(* unless the scan stops at an entry whose skill_load succeeded (the       *)
(* result array could not grow, or the store after a failed registry       *)
(* growth killed the process); every entry whose skill_load succeeded is   *)
(* appended to the registry, in scan order; and the call returns ERR_OK    *)
(* unless it stopped that way.                                             *)
C5_Loaded(log) == {k \in 1..Len(log) : log[k].err = ERR_OK}

C5_StoppedAtLoadedEntry ==
  /\ scanLog' # << >>
  /\ scanLog'[Len(scanLog')].err = ERR_OK
  /\ ret' \in {ERR_OUT_OF_MEMORY, NO_RESULT}

C5_ScanSurvivesFailures ==
  [][(Called("load_dir") /\ CanOpenDir(op'.arg)) =>
       /\ \A k \in 1..Len(scanLog') :
            scanLog'[k].path = EntryPath(op'.arg, k)
       /\ \/ /\ Len(scanLog') = Len(DirEntries(op'.arg))
             /\ ret' = ERR_OK
          \/ C5_StoppedAtLoadedEntry
       /\ \A k \in 1..Len(scanLog') :
            (scanLog'[k].err \notin {ERR_OK, "SKIPPED"} /\ k < Len(scanLog'))
              => scanLog'[k + 1].path = EntryPath(op'.arg, k + 1)
       /\ ret' = ERR_OK =>
            /\ Len(Appended) = Cardinality(C5_Loaded(scanLog'))
            /\ \A i \in 1..Len(Appended) :
                 \E k \in C5_Loaded(scanLog') :
                   /\ heap'[Appended[i]].manifest.location = scanLog'[k].path
                   /\ Cardinality({j \in C5_Loaded(scanLog') : j <= k}) = i]_vars

\* C5 as stated: once an entry failed to load, the call returns ERR_OK and
\* every later entry that can be loaded (a file skill_load accepts, whose
\* calloc did not fail) is in the registry.
C5_AsStated ==
  [][(Called("load_dir") /\ CanOpenDir(op'.arg) /\ fault' = "none") =>
       \A k \in 1..Len(DirEntries(op'.arg)) :
         (/\ k <= Len(scanLog')
          /\ scanLog'[k].err \in {ERR_FILE_NOT_FOUND, ERR_FILE_READ_FAILED})
         => /\ ret' = ERR_OK
            /\ \A j \in (k + 1)..Len(DirEntries(op'.arg)) :
                 (/\ EntryPath(op'.arg, j) # << >>
                  /\ skill_load(EntryPath(op'.arg, j), FALSE).err = ERR_OK
                  /\ (j <= Len(scanLog')
                        => scanLog'[j].err # ERR_OUT_OF_MEMORY))
                 => \E i \in 1..Len(Appended) :
                      heap'[Appended[i]].manifest.location
                        = EntryPath(op'.arg, j)]_vars

\* A scan returned ERR_OK after an entry failed to load and a later one was
\* loaded and appended.
C5_Witness ==
  /\ op.name = "load_dir"
  /\ ret = ERR_OK
  /\ \E k \in 1..Len(scanLog) :
       /\ scanLog[k].err \in {ERR_FILE_NOT_FOUND, ERR_FILE_READ_FAILED}
       /\ \E j \in (k + 1)..Len(scanLog) :
            /\ scanLog[j].err = ERR_OK
            /\ \E i \in 1..Len(reg) :
                 heap[reg[i]].manifest.location = scanLog[j].path

(* C6: what skill_load_from_directory hands back is what it appended to   *)
(* the registry: the same skills in the same order, on every exit path     *)
(* (stated for the calls in which calloc and the registry growth worked).  *)
C6_HandedBack == IF outWritten' THEN outSkills' ELSE << >>

C6_ReturnedAreAppended ==
  [][(Called("load_dir") /\ fault' = "none" /\ NoAllocationFailed(scanLog'))
     => C6_HandedBack = Appended]_vars

(* C7: in every reachable state the registry count is at most its          *)
(* capacity.                                                               *)
C7_CountWithinCapacity == fault # "segv" => skill_count <= capacity

(* C8: skill_unregister(name) on a name the registry holds removes the     *)
(* first entry of that name and no other, the count drops by one and the   *)
(* survivors keep their order; on an absent name it returns ERR_NOT_FOUND  *)
(* and changes nothing.  The capacity and the skills are untouched, and    *)
(* skill_registry_list hands out the entries in registry order.            *)
C8_IsSubsequenceWithout(r, i, r2) ==
  /\ Len(r2) = Len(r) - 1
  /\ \A j \in 1..Len(r2) : r2[j] = r[IF j < i THEN j ELSE j + 1]

C8_UnregisterStable ==
  /\ [][(Called("unregister") /\ op'.arg # NULL_NAME) =>
       LET present == \E i \in 1..Len(reg) : NameAt(reg, heap, i) = op'.arg
           first   == CHOOSE i \in 1..Len(reg) :
                        /\ NameAt(reg, heap, i) = op'.arg
                        /\ \A j \in 1..(i - 1) : NameAt(reg, heap, j) # op'.arg
       IN /\ present =>
               /\ ret' = ERR_OK
               /\ C8_IsSubsequenceWithout(reg, first, reg')
          /\ ~present => (ret' = ERR_NOT_FOUND /\ reg' = reg)
          /\ capacity' = capacity
          /\ heap' = heap]_vars
  /\ [][Called("list") => (ret' = ERR_OK /\ outSkills' = reg)]_vars

\* A skill was unregistered and two entries are left.
C8_Witness ==
  /\ op.name = "unregister"
  /\ ret = ERR_OK
  /\ Len(reg) >= 2
  /\ \E s \in Held : /\ heap[s].manifest.name = op.arg
                     /\ \A i \in 1..Len(reg) : reg[i] # s

(* C9: after skill_unregister(name) returned ERR_OK the removed skill is   *)
(* unloaded: loaded = false and its manifest released.                     *)
C9_UnregisterUnloads ==
  [][(Called("unregister") /\ ret' = ERR_OK) =>
       LET removed == reg[FirstIndex(reg, heap, op'.arg)] IN
         /\ ~heap'[removed].loaded
         /\ heap'[removed].manifest = ZeroManifest]_vars

(* C10: after skill_registry_shutdown the registry is empty (count 0,      *)
(* capacity 0, no name found) and every skill it held is unloaded.         *)
C10_ShutdownEmpties ==
  [][Called("shutdown") =>
       /\ reg' = << >>
       /\ capacity' = 0
       /\ ~initialized'
       /\ \A n \in Names : FirstIndex(reg', heap', n) = 0
       /\ \A i \in 1..Len(reg) : ~heap'[reg[i]].loaded]_vars

(* C11: skill_register validates before it looks for a name collision: a   *)
(* skill whose manifest breaks an invariant (empty name or description; a  *)
(* tool with empty name, description or kind; a shell tool without         *)
(* command) gets ERR_VALIDATION_FAILED, also when its name is that of an   *)
(* entry, and the registry stays as it was; every entry that               *)
(* skill_register inserted satisfies the invariants.                       *)
ManifestInvariants(m) ==
  /\ m.name # ""
  /\ m.description # ""
  /\ \A i \in 1..Len(m.tools) :
       /\ m.tools[i].name # ""
       /\ m.tools[i].description # ""
       /\ m.tools[i].kind # ""
       /\ m.tools[i].kind = "shell" => m.tools[i].command # ""

C11_ValidatesBeforeCollision ==
  /\ [](\A i \in 1..Len(reg) : ManifestInvariants(heap[reg[i]].manifest))
  /\ [][(/\ Called("register")
          /\ op'.arg # NULL
          /\ ~ManifestInvariants(heap[op'.arg].manifest))
         => /\ ret' = ERR_VALIDATION_FAILED
            /\ reg' = reg
            /\ capacity' = capacity
            /\ heap' = heap]_vars

\* A skill with a broken tool and the name of an entry was turned down.
C11_Witness ==
  /\ op.name = "register"
  /\ ret = ERR_VALIDATION_FAILED
  /\ op.arg # NULL
  /\ heap[op.arg].manifest.name # ""
  /\ heap[op.arg].manifest.description # ""
  /\ FirstIndex(reg, heap, heap[op.arg].manifest.name) # 0
  /\ reg[FirstIndex(reg, heap, heap[op.arg].manifest.name)] # op.arg

(* C12: a skill is never partially loaded: when skill_load returns ERR_OK  *)
(* the skill it hands out satisfies the manifest invariants, and so does   *)
(* every skill skill_load_from_directory appends to the registry.          *)
C12_NeverPartiallyLoaded ==
  [][/\ (Called("load") /\ ret' = ERR_OK)
          => ManifestInvariants(heap'[outSkill'].manifest)
     /\ (Called("load_dir") /\ fault' = "none")
          => \A i \in 1..Len(Appended) :
               ManifestInvariants(heap'[Appended[i]].manifest)]_vars

(* C13: skill_load returns ERR_FILE_NOT_FOUND when nothing is at the path  *)
(* and, once the skill_t is allocated, ERR_FILE_READ_FAILED when the file  *)
(* cannot be read; a call that fails writes no skill to out_skill and      *)
(* changes neither the registry nor any skill; a call that succeeds hands  *)
(* out a new skill with loaded = true, manifest.location = the path and    *)
(* load_time = the current time.                                           *)
C13_LoadOutcomes ==
  [][Called("load") =>
       LET path == op'.arg IN
       /\ Node(path).type = "none" => ret' = ERR_FILE_NOT_FOUND
       /\ (/\ Node(path).type # "none"
           /\ ~(Node(path).type = "file" /\ Node(path).readable))
            => ret' \in {ERR_FILE_READ_FAILED, ERR_OUT_OF_MEMORY}
       /\ ret' = ERR_OUT_OF_MEMORY => Node(path).type # "none"
       /\ ret' # ERR_OK =>
            /\ ~outWritten'
            /\ heap' = heap
       /\ ret' = ERR_OK =>
            /\ outWritten'
            /\ outSkill' \in SkillIds
            /\ heap[outSkill'].st = "unalloc"
            /\ heap'[outSkill'].st = "live"
            /\ heap'[outSkill'].loaded
            /\ heap'[outSkill'].manifest.location = path
            /\ heap'[outSkill'].load_time = clock
            /\ \A s \in SkillIds \ {outSkill'} : heap'[s] = heap[s]
       /\ reg' = reg
       /\ capacity' = capacity
       /\ initialized' = initialized]_vars

\* A skill was loaded after the clock had moved on, next to an older one.
C13_Witness ==
  /\ op.name = "load"
  /\ ret = ERR_OK
  /\ heap[outSkill].load_time = clock
  /\ clock > 1
  /\ \E s \in Held : heap[s].loaded /\ heap[s].load_time < clock

(* C14: skill_unload is idempotent: it returns ERR_OK and leaves the skill *)
(* with loaded = false, load_time = 0 and an empty manifest; on a skill    *)
(* that is already unloaded it changes nothing and hands no block to free. *)
C14_Unloaded(sk) ==
  /\ ~sk.loaded
  /\ sk.load_time = 0
  /\ sk.manifest = ZeroManifest

C14_UnloadIdempotent ==
  /\ [](\A s \in Held :
          /\ C14_Unloaded(skill_unload(heap[s]))
          /\ skill_unload(skill_unload(heap[s])) = skill_unload(heap[s])
          /\ skill_manifest_free(skill_unload(heap[s]).manifest).released = 0
          /\ ~heap[s].loaded =>
               skill_manifest_free(heap[s].manifest).released = 0)
  /\ [][(Called("unload") /\ op'.arg # NULL) =>
         /\ ret' = ERR_OK
         /\ C14_Unloaded(heap'[op'.arg])
         /\ heap'[op'.arg].st = heap[op'.arg].st
         /\ \A s \in SkillIds \ {op'.arg} : heap'[s] = heap[s]
         /\ ~heap[op'.arg].loaded => heap' = heap
         /\ reg' = reg /\ capacity' = capacity]_vars

\* A skill was unloaded, and unloading it again is possible and changes
\* nothing.
C14_Witness ==
  /\ op.name = "unload"
  /\ ret = ERR_OK
  /\ op.arg # NULL
  /\ C14_Unloaded(heap[op.arg])
  /\ ENABLED (SkillUnload(op.arg) /\ UNCHANGED vars)

(* C15: when skill_reload returns ERR_OK the skill the caller holds (and    *)
(* the registry, if it holds it) is loaded again, with the location it had *)
(* before, and no registry entry is left unloaded by the call; on NULL or  *)
(* a skill that is not loaded it returns ERR_INVALID_ARGUMENT and changes  *)
(* nothing.                                                                *)
C15_ReloadRefreshes ==
  [][Called("reload") =>
       LET s == op'.arg IN
       /\ (s = NULL \/ ~heap[s].loaded)
            => (ret' = ERR_INVALID_ARGUMENT /\ heap' = heap)
       /\ (s # NULL /\ heap[s].loaded /\ ret' = ERR_OK)
            => /\ heap'[s].loaded
               /\ heap'[s].manifest.location = heap[s].manifest.location
               /\ \A i \in 1..Len(reg') :
                    heap[reg[i]].loaded => heap'[reg'[i]].loaded]_vars

(* C16: skill_load_from_directory takes a sub-directory for a skill        *)
(* exactly when it holds a canonical manifest file, SKILL.toml before      *)
(* SKILL.md before skill.json: the skill is loaded from the first of       *)
(* these that exists, and a sub-directory with none of them gives no       *)
(* skill.                                                                  *)
C16_CanonicalManifest(sub) ==
  IF file_exists(sub \o <<"SKILL.toml">>) THEN sub \o <<"SKILL.toml">>
  ELSE IF file_exists(sub \o <<"SKILL.md">>) THEN sub \o <<"SKILL.md">>
  ELSE IF file_exists(sub \o <<"skill.json">>) THEN sub \o <<"skill.json">>
  ELSE << >>

C16_SubdirectoryManifests ==
  [][(/\ Called("load_dir") /\ ret' = ERR_OK /\ fault' = "none"
      /\ NoAllocationFailed(scanLog'))
     => \A k \in 1..Len(DirEntries(op'.arg)) :
          LET sub  == <<op'.arg, DirEntries(op'.arg)[k]>>
              from == {heap'[Appended[i]].manifest.location :
                         i \in 1..Len(Appended)}
          IN Node(sub).type = "dir" =>
               /\ C16_CanonicalManifest(sub) # << >>
                    => C16_CanonicalManifest(sub) \in from
               /\ \A f \in {"SKILL.toml", "SKILL.md", "skill.json"} :
                    (sub \o <<f>>) \in from
                      => C16_CanonicalManifest(sub) = sub \o <<f>>]_vars

(* C17: for every well-formed TOML manifest text, the JSON that            *)
(* skill_manifest_to_json writes for the parsed manifest carries the       *)
(* name, description and version of the text, its tags as a set and the    *)
(* names of its tools in order.                                            *)
C17_WellFormedToml(text) ==
  /\ text.name # ""
  /\ text.description # ""
  /\ \A i \in 1..Len(text.tools) :
       ManifestInvariants([ZeroManifest EXCEPT !.name = text.name,
                             !.description = text.description,
                             !.tools = text.tools])

\* The value of the member key of a JSON object, << >> when it has none.
C17_Member(json, key) ==
  IF \E i \in 1..Len(json) : json[i].key = key
    THEN json[CHOOSE i \in 1..Len(json) :
                /\ json[i].key = key
                /\ \A j \in 1..(i - 1) : json[j].key # key].value
    ELSE << >>

\* What a JSON string literal stands for.
C17_Unescape(str) == IF str = "Say \\\"hi\\\"" THEN "Say \"hi\"" ELSE str

C17_RoundTrip ==
  [][(Called("to_json") /\ C17_WellFormedToml(op'.arg)) =>
       LET text == op'.arg
           tags == C17_Member(outJson', "tags")
           tools == C17_Member(outJson', "tools")
       IN /\ ret' = ERR_OK
          /\ C17_Unescape(C17_Member(outJson', "name")) = text.name
          /\ C17_Unescape(C17_Member(outJson', "description"))
               = text.description
          /\ C17_Unescape(C17_Member(outJson', "version")) = text.version
          /\ {C17_Unescape(tags[i]) : i \in 1..Len(tags)}
               = {text.tags[i] : i \in 1..Len(text.tags)}
          /\ Len(tools) = Len(text.tools)
          /\ \A i \in 1..Len(tools) :
               C17_Unescape(tools[i].name) = text.tools[i].name]_vars

\* The tool a call of skill_execute_tool resolves: arg is the op record of
\* the call; << >> when the skill is null or unloaded or has no such tool.
ResolvedTool(arg) ==
  IF arg.skill = NULL \/ arg.tool_name = NULL_NAME THEN << >>
  ELSE IF ~heap[arg.skill].loaded THEN << >>
  ELSE IF \A i \in 1..Len(heap[arg.skill].manifest.tools) :
            heap[arg.skill].manifest.tools[i].name # arg.tool_name
    THEN << >>
  ELSE <<heap[arg.skill].manifest.tools[
           CHOOSE i \in 1..Len(heap[arg.skill].manifest.tools) :
             /\ heap[arg.skill].manifest.tools[i].name = arg.tool_name
             /\ \A j \in 1..(i - 1) :
                  heap[arg.skill].manifest.tools[j].name # arg.tool_name]>>

\* The last call was skill_execute_tool (either definition) and resolved a
\* tool of this kind.
ResolvedKind(kinds) ==
  /\ op.name \in {"execute", "execute_json"}
  /\ ResolvedTool(op.arg) # << >>
  /\ ResolvedTool(op.arg)[1].kind \in kinds

(* C18: for a shell tool, skill_execute_tool returns OK whether or not the *)
(* command succeeded: when shell_execute fails, the result has success =   *)
(* false and a non-zero status; when it succeeds, the result has success = *)
(* true and the command's output.                                          *)
C18_ShellFailureInBand ==
  (ResolvedKind({"shell"}) /\ op.name = "execute" /\ op.arg.result) =>
    /\ ret = ERR_OK
    /\ toolResult.written
    /\ IF op.arg.shell = ERR_OK
         THEN /\ toolResult.success
              /\ toolResult.output = shell_execute(shellRun[1], ERR_OK).output
         ELSE /\ ~toolResult.success
              /\ toolResult.exit_code # 0

C20_DispatchGuards ==
  /\ [](op.name \in {"execute", "execute_json"} =>
         /\ shellRun # << >> => ResolvedKind({"shell"})
         /\ (op.arg.skill = NULL \/ ~heap[op.arg.skill].loaded)
              => ret = ERR_INVALID_ARGUMENT /\ shellRun = << >>
         /\ (/\ op.arg.skill # NULL
             /\ heap[op.arg.skill].loaded
             /\ op.arg.tool_name # NULL_NAME
             /\ ResolvedTool(op.arg) = << >>)
              => ret = ERR_NOT_FOUND /\ shellRun = << >>
         /\ (/\ ResolvedTool(op.arg) # << >>
             /\ ~ResolvedKind({"shell", "builtin"}))
              => ret = ERR_NOT_IMPLEMENTED /\ shellRun = << >>)
  /\ [][(Called("execute") \/ Called("execute_json")) =>
         UNCHANGED <<heap, reg, capacity, initialized>>]_vars

C20_Witness ==
  /\ op.name = "execute"
  /\ ResolvedTool(op.arg) # << >>
  /\ ResolvedTool(op.arg)[1].kind = "http"
  /\ ret = ERR_NOT_IMPLEMENTED
  /\ shellRun = << >>
  /\ \E s \in Held : ~heap[s].loaded

\* What the claim expects for one manifest: header, description, the tools
\* and the prompt templates, as one text of pieces.
C21_ManifestText(m) == skill_manifest_to_prompt(m)

\* The indices of skills whose entry is a loaded skill, in order.
C21_LoadedIndices(skills) ==
  {i \in 1..Len(skills) : skills[i] # NULL /\ heap[skills[i]].loaded}

\* The number of loaded entries among the first i.
C21_Rank(skills, i) ==
  Cardinality({j \in C21_LoadedIndices(skills) : j <= i})

\* out is header, then text(k) and the delimiter for k = 1 .. n.
RECURSIVE C21_IsConcat(_, _, _, _)
C21_IsConcat(out, skills, k, n) ==
  IF k > n THEN out = << >>
  ELSE LET i == CHOOSE j \in C21_LoadedIndices(skills) :
                  C21_Rank(skills, j) = k
           text == C21_ManifestText(heap[skills[i]].manifest)
                   \o <<"\n---\n\n">>
       IN /\ Len(out) >= Len(text)
          /\ SubSeq(out, 1, Len(text)) = text
          /\ C21_IsConcat(SubSeq(out, Len(text) + 1, Len(out)), skills,
                          k + 1, n)

(* C21: skills_to_system_prompt returns OK and writes the fixed header     *)
(* followed by skill_manifest_to_prompt and the delimiter of every loaded  *)
(* entry of the array, in array order; null and unloaded entries are       *)
(* skipped; the text is a function of the array and the skills alone.      *)
C21_SystemPrompt ==
  (op.name = "system_prompt" /\ op.arg.given) =>
    /\ ret = ERR_OK
    /\ Len(outPrompt) >= 1
    /\ outPrompt[1] = "# Available Skills\n\n"
    /\ C21_IsConcat(Tail(outPrompt), op.arg.skills, 1,
                    Cardinality(C21_LoadedIndices(op.arg.skills)))

C21_Witness ==
  /\ op.name = "system_prompt"
  /\ op.arg.given
  /\ Len(op.arg.skills) = 3
  /\ op.arg.skills[1] # NULL /\ ~heap[op.arg.skills[1]].loaded
  /\ op.arg.skills[2] = NULL
  /\ op.arg.skills[3] # NULL /\ heap[op.arg.skills[3]].loaded
  /\ Len(heap[op.arg.skills[3]].manifest.prompts) = 2
  /\ Len(outPrompt) > 1
  /\ ret = ERR_OK

(* C22: with no marker file skill_should_sync_open_skills returns true;  *)
(* with a marker written at time t it returns, at time t', true exactly    *)
(* when t' - t > 604800 (so false at t' - t = 604800); and it never        *)
(* creates or changes the marker.                                          *)
C22_StalenessGate ==
  /\ []((/\ op.name = "should_sync"
         /\ op.arg.repo_dir # NULL_NAME
         /\ ~op.arg.stat) =>
          IF marker[op.arg.repo_dir] = NO_MARKER
            THEN ret = "true"
            ELSE (ret = "true")
                   <=> (clock - marker[op.arg.repo_dir] > 604800))
  /\ [][Called("should_sync") => marker' = marker]_vars

C22_Witness ==
  /\ op.name = "should_sync"
  /\ op.arg.repo_dir # NULL_NAME
  /\ ~op.arg.stat
  /\ marker[op.arg.repo_dir] # NO_MARKER
  /\ clock - marker[op.arg.repo_dir] = 604800
  /\ ret = "false"

(* C23: skill_load_from_directory of a directory that is empty or cannot  *)
(* be opened returns OK with zero skills and leaves the registry as it     *)
(* was.                                                                    *)
C23_EmptyOrUnreadableDirectory ==
  [][(/\ Called("load_dir")
      /\ (~CanOpenDir(op'.arg) \/ DirEntries(op'.arg) = << >>)) =>
       /\ ret' = ERR_OK
       /\ outWritten'
       /\ outSkills' = << >>
       /\ reg' = reg]_vars

(* C24: skill_tool_to_extension gives a definition with the name and the  *)
(* description of the tool, the adapter type of its kind (shell, builtin,  *)
(* http, custom for the rest) and one named parameter for each declared    *)
(* argument of the tool, same keys and same count.                         *)
C24_ToolToExtension ==
  (op.name = "to_extension" /\ op.arg.given /\ op.arg.out) =>
    /\ ret = ERR_OK
    /\ outToolDef.written
    /\ outToolDef.name = op.arg.tool.name
    /\ outToolDef.description = op.arg.tool.description
    /\ outToolDef.type =
         (CASE op.arg.tool.kind = "shell" -> TOOL_TYPE_SHELL
            [] op.arg.tool.kind = "builtin" -> TOOL_TYPE_BUILTIN
            [] op.arg.tool.kind = "http" -> TOOL_TYPE_HTTP
            [] OTHER -> TOOL_TYPE_CUSTOM)
    /\ Len(outToolDef.parameters) = Len(op.arg.tool.args)
    /\ \A i \in 1..Len(op.arg.tool.args) :
         outToolDef.parameters[i].name = op.arg.tool.args[i].key

\* The first call of api->register_tool the host refuses, 0 when it
\* accepts the n tools.
C25_FirstFailure(fails, n) ==
  IF \E i \in 1..n : i \in fails
    THEN CHOOSE i \in 1..n : i \in fails /\ \A j \in 1..(i - 1) : j \notin fails
    ELSE 0

C26_Max3(a, b, c) ==
  IF a >= b /\ a >= c THEN a ELSE IF b >= c THEN b ELSE c

(* C26: while the registry is initialized and is not shut down its         *)
(* capacity never decreases; an insertion that needs more room than the    *)
(* capacity makes it max(2 * capacity, count + 1, 8); with insertions one  *)
(* at a time the capacity is 0, 8, 16, 32, ...                             *)
C26_CapacityGrowth ==
  /\ [][(initialized /\ ~Called("shutdown")) => capacity' >= capacity]_vars
  /\ [][(Called("register") /\ ret' = ERR_OK) =>
         /\ Len(reg') = Len(reg) + 1
         /\ IF Len(reg') <= capacity
              THEN capacity' = capacity
              ELSE capacity' = C26_Max3(2 * capacity, Len(reg'), 8)]_vars
  /\ [](capacity \in {0} \cup {8 * 2 ^ k : k \in 0..4})

C26_Witness ==
  /\ initialized
  /\ op.name = "register"
  /\ ret = ERR_OK
  /\ Len(reg) = 9
  /\ capacity = 16

\* The manifest the last skill_load wrote was parsed with the TOML dialect
\* (the parser's fixed name and description) or with the Markdown dialect
\* and the file's stem as hint name.
C27_ParsedAsToml ==
  /\ heap[outSkill].manifest.name = "unknown"
  /\ heap[outSkill].manifest.description = "Skill loaded from TOML"

C27_ParsedAsMarkdown ==
  /\ heap[outSkill].manifest.name = NameParts(op.arg[Len(op.arg)]).base
  /\ heap[outSkill].manifest.description =
       FirstContentLine(Node(op.arg).lines)

C27_Loaded == op.name = "load" /\ ret = ERR_OK

(* C27 as stated: a path ending in .toml or a content with the marker      *)
(* "[skill]" is parsed as TOML, a path ending in .md is parsed as          *)
(* Markdown with the file's stem as name, and one dialect only is applied. *)
C27_AsStated ==
  C27_Loaded =>
    /\ (NameParts(op.arg[Len(op.arg)]).ext = "toml" \/ Node(op.arg).marker)
         => C27_ParsedAsToml
    /\ NameParts(op.arg[Len(op.arg)]).ext = "md" => C27_ParsedAsMarkdown
    /\ ~(C27_ParsedAsToml /\ C27_ParsedAsMarkdown)

(* C27, amended: a path ending in .toml or a content with the marker       *)
(* "[skill]" is parsed as TOML, whatever the suffix; every other file, a   *)
(* .md file without the marker among them, is parsed as Markdown with the  *)
(* file's stem as name; one dialect only is applied.                       *)
C27_DialectSelection ==
  C27_Loaded =>
    /\ IF NameParts(op.arg[Len(op.arg)]).ext = "toml" \/ Node(op.arg).marker
         THEN C27_ParsedAsToml
         ELSE C27_ParsedAsMarkdown
    /\ ~(C27_ParsedAsToml /\ C27_ParsedAsMarkdown)

C27_Witness ==
  /\ C27_Loaded
  /\ op.arg = <<"mix", "tagged.md">>
  /\ C27_ParsedAsToml

\* The lines of a document that are not empty and do not start with '#'.
C28_ContentIndices(lines) ==
  {i \in 1..Len(lines) : lines[i] # "" /\ ~StartsWithHash(lines[i])}

(* C28: skill_manifest_parse_md with hint name h gives, for every          *)
(* document, a manifest with name h, the first line that is not empty and  *)
(* does not start with '#' as description, version "0.1.0" and no tools,   *)
(* prompts or tags.                                                        *)
C28_ParseMd ==
  (op.name = "parse_md" /\ op.arg.given) =>
    /\ ret = ERR_OK
    /\ outManifest.name = op.arg.skill_name
    /\ \A i \in C28_ContentIndices(op.arg.lines) :
         (\A j \in C28_ContentIndices(op.arg.lines) : i <= j)
           => outManifest.description = op.arg.lines[i]
    /\ outManifest.version = "0.1.0"
    /\ outManifest.tools = << >>
    /\ outManifest.prompts = << >>
    /\ outManifest.tags = << >>

\* The same for the documents whose text pointer is not NULL.
C28_ParseMdOfText ==
  (op.name = "parse_md" /\ ~op.arg.null) => C28_ParseMd


-----------------------------------------------------------------------------
\* Both threads have left skill_register calls whose scans overlapped.
C29_BothOverlapped ==
  \A t \in Threads : threads[t].pc = "done" /\ threads[t].overlap

(* C29: the registry operations take no lock.  When two skill_register     *)
(* calls for skills of one name both scan before either appends, each      *)
(* append that gets its memory returns ERR_OK and stores the skill without  *)
(* a second look at the registry, and after both the registry holds two    *)
(* entries of that name.  When the host runs every register, unregister,   *)
(* shutdown and init call under one lock, no two entries ever share a name  *)
(* and skill_count never exceeds the capacity.                             *)
C29_LockDiscipline ==
  /\ [](locking => /\ NoDupNames(reg, heap)
                   /\ skill_count <= capacity)
  /\ []((~locking /\ C29_BothOverlapped
           /\ \A t \in Threads : threads[t].ret # ERR_OUT_OF_MEMORY)
          => /\ \A t \in Threads : threads[t].ret = ERR_OK
             /\ \A t \in Threads :
                  CountName(reg, heap,
                            heap[threads[t].skill].manifest.name) = 2)
  /\ [][(Called("register_append") /\ ret' # ERR_OUT_OF_MEMORY)
          => /\ ret' = ERR_OK
             /\ reg' = Append(reg, op'.arg.skill)
             /\ skill_count' <= capacity']_vars

\* Both threads registered different skills named git-tools, without a lock,
\* and both got ERR_OK.
C29_Witness ==
  /\ ~locking
  /\ C29_BothOverlapped
  /\ \A t \in Threads : threads[t].ret = ERR_OK
  /\ threads[1].skill # threads[2].skill
  /\ Len(reg) = 2
  /\ NameAt(reg, heap, 1) = "git-tools"
  /\ NameAt(reg, heap, 2) = "git-tools"

-----------------------------------------------------------------------------
\* The last call was skill_unload on a skill the registry holds.
C30_JustUnloaded ==
  /\ op.name = "unload"
  /\ op.arg # NULL
  /\ \E i \in 1..Len(reg) : reg[i] = op.arg

\* The array skills without the entries that point to s.
RECURSIVE C30_Without(_, _)
C30_Without(skills, s) ==
  IF skills = << >> THEN << >>
  ELSE (IF Head(skills) = s THEN << >> ELSE <<Head(skills)>>)
       \o C30_Without(Tail(skills), s)

====
